---- MODULE Spec2Model ----
(***************************************************************************)
(* A model of the gimg image toolkit's orchestration layer:                *)
(*   src/gimg/utils.py  format sniffing, input validation, output-path     *)
(*                      resolution, the batch runner                       *)
(*   src/gimg/cli.py    the subcommands and the process exit code          *)
(*   src/api/main.py    the HTTP handlers and their temp files             *)
(*                                                                         *)
(* Strings are sequences of one-character strings, byte strings are        *)
(* sequences of numbers 0..255, a path is the sequence of its components,  *)
(* and an optional value is <<>> (None) or <<v>>.                          *)
(***************************************************************************)
EXTENDS Integers, Sequences, FiniteSets, TLC

VARIABLES
    \* ---- resolve_output called once on drawn arguments
    r_input,      \* input_path
    r_output_arg, \* output_arg: None, or the path the argument text names
    r_suffix,     \* tool_suffix
    r_ext,        \* ext: None or a string
    r_overwrite,  \* overwrite
    r_result,     \* what the call returned or raised
    r_pc,         \* "call" before the call, "done" after it
    \* ---- detect_format and validate_input called on one drawn path
    v_file,       \* what the path names: kind, readability, content
    v_max_size,   \* max_size, the ceiling in bytes
    v_fmt,        \* what detect_format returned
    v_result,     \* how validate_input ended: "ok" or the error raised
    v_pc,         \* "start", "detected", "done"
    \* ---- one run of the command line
    c_cmd,        \* args.command, "" when none was given
    c_args,       \* the parsed arguments the flow reads
    c_inputs,     \* inputs, as resolve_inputs returned them
    c_mode,       \* "single", "batch" or "view": which flow handles the inputs
    c_dirs,       \* the directories that exist
    c_i,          \* the position of the item in hand
    c_out,        \* out, the resolved output path of the item in hand
    c_success,    \* run_batch's success
    c_errors,     \* run_batch's errors
    c_written,    \* the output paths a processing function has written
    c_calls,      \* the calls made on the items so far, with how each ended
    c_rc,         \* the process exit code, None while running
    c_pc,         \* the position in the flow
    \* ---- the HTTP adapter serving requests one after another
    h_has_rembg,  \* HAS_REMBG
    h_deps,       \* which optional packages (rembg, cv2) are installed
    h_tmp,        \* the temp files that exist, by the number mkstemp gave them
    h_made,       \* how many temp files mkstemp has made
    h_served,     \* how many requests were answered
    h_req,        \* the request in hand: endpoint, upload, form fields
    h_inp,        \* inp of the handler, None before _save_upload
    h_out,        \* out of the handler, None before _output_path
    h_trace,      \* what the handler has done for the request in hand
    h_resp,       \* the response to the request in hand
    h_pc,         \* the position of the request in hand
    \* ---- the HTTP adapter serving requests side by side
    k_disk,       \* the temp files that exist: name and the request that made it
    k_req,        \* per slot: the request it serves, its position, its inp and out
    k_ids,        \* how many requests have arrived
    \* ---- one call of a processing function
    p_op,         \* which process_single is called
    p_file,       \* the size of the picture in the input file
    p_args,       \* the arguments as they were given, in the order given
    p_kwargs,     \* the keyword arguments the function receives
    p_ext,        \* output_path.suffix.lower()
    p_img,        \* img: its size and where the picture lies in it, None before open_image
    p_calls,      \* the calls made into the imaging library, in order
    p_step,       \* the next step of the editor's pipeline
    p_result,     \* "" while running, then "ok" or the exception raised
    p_written,    \* whether the output file was written
    p_pc,         \* the position in the function
    \* ---- resolve_inputs called once on a drawn argument
    i_fs,         \* the entries of directory d: name and kind
    i_arg,        \* input_arg: a name in d, d itself, or a pattern with one star
    i_result,     \* the list returned, or the error raised
    i_pc,         \* "call" before the call, "done" after it
    \* ---- one request put to both front ends
    f_op,         \* the operation
    f_params,     \* the parameter set of the request
    f_cli,        \* what the command line made of it, "" before it ran
    f_http,       \* what the HTTP adapter made of it, "" before it ran
    \* ---- the editor called again and again in one process
    n_rng,        \* numpy's global random generator: its seed and how far it was read
    n_runs,       \* the invocations so far: filter, input and output of each
    \* ---- the colour mode of the image on its way to img.save
    m_op,         \* which process_single is called
    m_file,       \* the mode of the picture in the input file, and its transparency entry
    m_ext,        \* output_path.suffix.lower()
    m_steps,      \* the steps asked of the editor, or "sharpen" of upscale
    m_img,        \* the mode of img, "" before open_image
    m_saved,      \* the mode of the image img.save was called on, "" before
    m_pc          \* the position in the function

resolveVars == <<r_input, r_output_arg, r_suffix, r_ext, r_overwrite, r_result, r_pc>>
validateVars == <<v_file, v_max_size, v_fmt, v_result, v_pc>>

cliVars == <<c_cmd, c_args, c_inputs, c_mode, c_dirs, c_i, c_out, c_success, c_errors,
             c_written, c_calls, c_rc, c_pc>>

httpVars == <<h_has_rembg, h_deps, h_tmp, h_made, h_served, h_req, h_inp, h_out, h_trace, h_resp, h_pc>>

concVars == <<k_disk, k_req, k_ids>>

procVars == <<p_op, p_file, p_args, p_kwargs, p_ext, p_img, p_calls, p_step, p_result, p_written, p_pc>>

inputsVars == <<i_fs, i_arg, i_result, i_pc>>

frontVars == <<f_op, f_params, f_cli, f_http>>

pureVars == <<n_rng, n_runs>>

modeVars == <<m_op, m_file, m_ext, m_steps, m_img, m_saved, m_pc>>
moreVars == <<inputsVars, frontVars, pureVars, modeVars>>

\* The parts of the state that the command line and the one-by-one HTTP adapter
\* never touch.
laterVars == <<concVars, procVars, moreVars>>

vars == <<resolveVars, validateVars, cliVars, httpVars, laterVars>>

None == <<>>
Some(v) == <<v>>

(***************************************************************************)
(* Strings and paths (pathlib.PurePath, as the code uses it).              *)
(***************************************************************************)
\* Length bound of the input file names drawn.
MaxNameLen == 3

Alphabet == {"p", ".", "_"}

RECURSIVE StringsUpTo(_)
StringsUpTo(n) ==
    IF n = 0 THEN {<<>>}
    ELSE LET shorter == StringsUpTo(n - 1)
         IN  shorter \cup {Append(s, c) : s \in {t \in shorter : Len(t) = n - 1}, c \in Alphabet}

\* File names: non-empty, and neither "." nor "..", which are no file names.
FileNames == {s \in StringsUpTo(MaxNameLen) :
                 s # <<>> /\ s # <<".">> /\ s # <<".", ".">>}

\* str.rfind('.') + 1: the 1-based position of the last dot, 0 when there is none.
RFindDot(s) ==
    LET dots == {i \in 1..Len(s) : s[i] = "."}
    IN  IF dots = {} THEN 0 ELSE CHOOSE i \in dots : \A j \in dots : j <= i

PathName(p) == p[Len(p)]
PathParent(p) == SubSeq(p, 1, Len(p) - 1)
PathJoin(p, name) == Append(p, name)

\* PurePath.suffix: from the last dot on, unless that dot leads or ends the name.
PathSuffix(p) ==
    LET name == PathName(p)
        i == RFindDot(name)
    IN  IF 1 < i /\ i < Len(name) THEN SubSeq(name, i, Len(name)) ELSE <<>>

\* PurePath.stem: the name without its suffix.
PathStem(p) ==
    LET name == PathName(p)
        i == RFindDot(name)
    IN  IF 1 < i /\ i < Len(name) THEN SubSeq(name, 1, i - 1) ELSE name

\* The directories of the file system the calls start with: the working
\* directory (the path with no components) and two directories below it.
DirD == <<"d">>
DirO == <<"o">>
ExistingDirs == {<<>>, <<DirD>>, <<DirO>>}

\* Path.is_dir() in a file system whose directories are `dirs`.
is_dir(dirs, p) == p \in dirs

\* bool(x) of an optional string: None and "" are false.
Truthy(opt) == opt # None /\ opt[1] # <<>>

(***************************************************************************)
(* default_output and resolve_output.                                      *)
(***************************************************************************)
\* default_output as it would be with empty parts dropped: no separator for an
\* empty suffix.
default_output_bare_join(input_path, suffix, ext) ==
    LET stem == PathStem(input_path)
        extension == IF Truthy(ext) THEN ext[1] ELSE PathSuffix(input_path)
        dotted == IF extension # <<>> /\ extension[1] = "."
                  THEN extension ELSE <<".">> \o extension
        sep == IF suffix = <<>> THEN <<>> ELSE <<"_">>
    IN  PathJoin(PathParent(input_path), stem \o sep \o suffix \o dotted)

\* default_output without the `if not extension.startswith('.')` repair.
default_output_no_dot(input_path, suffix, ext) ==
    LET stem == PathStem(input_path)
        extension == IF Truthy(ext) THEN ext[1] ELSE PathSuffix(input_path)
    IN  PathJoin(PathParent(input_path), stem \o <<"_">> \o suffix \o extension)

default_output(input_path, suffix, ext) ==
    LET stem == PathStem(input_path)
        extension == IF Truthy(ext) THEN ext[1] ELSE PathSuffix(input_path)
        dotted == IF extension # <<>> /\ extension[1] = "."
                  THEN extension ELSE <<".">> \o extension
    IN  PathJoin(PathParent(input_path), stem \o <<"_">> \o suffix \o dotted)

Returned(p) == [status |-> "ok", path |-> p]
Raised(kind) == [status |-> kind, path |-> <<>>]

\* output_arg is None, or Some(path) with the empty text "" as the marker
\* EmptyText: `if output_arg:` is false for both.
EmptyText == <<<<"">>>>
ArgGiven(output_arg) == output_arg # None /\ output_arg[1] # EmptyText

\* resolve_output in a file system whose directories are `dirs`.
resolve_output(dirs, input_path, output_arg, tool_suffix, ext, overwrite) ==
    IF ArgGiven(output_arg)
    THEN LET out == output_arg[1]
         IN  IF is_dir(dirs, out)
             THEN Returned(PathJoin(out, PathName(default_output(input_path, tool_suffix, ext))))
             ELSE Returned(out)
    ELSE LET out == default_output(input_path, tool_suffix, ext)
         IN  IF out = input_path /\ ~overwrite
             THEN Raised("OverwriteError")
             ELSE Returned(out)

(***************************************************************************)
(* SpecResolve: one call of resolve_output on arguments drawn from         *)
(* bounded sets.                                                           *)
(***************************************************************************)
InputDirs == {<<DirD>>, <<DirO>>}
InputPaths == {PathJoin(d, n) : d \in InputDirs, n \in FileNames}

\* Explicit output file names tried, including names an input can have.
OutNames == {<<"p", ".", "p">>, <<"p", "_", ".", "p">>, <<"p">>}
OutputArgs ==
    {None, Some(EmptyText)}
        \cup {Some(d) : d \in {<<DirD>>, <<DirO>>, <<<<"n">>>>}}
        \cup {Some(PathJoin(d, n)) : d \in InputDirs, n \in OutNames}

ToolSuffixes == {<<>>, <<"r">>, <<"_">>}
Exts == {None, Some(<<>>), Some(<<".", "q">>), Some(<<"q">>)}

NoResult == [status |-> "none", path |-> <<>>]

ResolveIdle ==
    /\ r_input = <<>> /\ r_output_arg = None /\ r_suffix = <<>> /\ r_ext = None
    /\ r_overwrite = FALSE /\ r_result = NoResult /\ r_pc = "idle"

ResolveStart ==
    /\ r_input \in InputPaths
    /\ r_output_arg \in OutputArgs
    /\ r_suffix \in ToolSuffixes
    /\ r_ext \in Exts
    /\ r_overwrite \in BOOLEAN
    /\ r_result = NoResult
    /\ r_pc = "call"

ResolveCall ==
    /\ r_pc = "call"
    /\ r_result' = resolve_output(ExistingDirs, r_input, r_output_arg, r_suffix, r_ext, r_overwrite)
    /\ r_pc' = "done"
    /\ UNCHANGED <<r_input, r_output_arg, r_suffix, r_ext, r_overwrite>>
    /\ UNCHANGED <<validateVars, cliVars, httpVars, laterVars>>

(***************************************************************************)
(* Files, detect_format and validate_input.                                *)
(***************************************************************************)
MAX_FILE_SIZE == 50 * 1024 * 1024
\* detect_format reads f.read(32).
HeaderLen == 32

Min(a, b) == IF a < b THEN a ELSE b

\* Python's s[a:b] on bytes, 0 <= a <= b: clamped to the length, never an error.
Slice(s, a, b) ==
    LET hi == Min(b, Len(s))
    IN  IF a >= hi THEN <<>> ELSE [i \in 1..(hi - a) |-> s[a + i]]

\* bytes.lstrip(): leading ASCII whitespace (space, \t, \n, \v, \f, \r) removed.
Whitespace == {32, 9, 10, 11, 12, 13}
LStrip(s) ==
    LET keep == {i \in 1..Len(s) : s[i] \notin Whitespace}
    IN  IF keep = {} THEN <<>>
        ELSE LET first == CHOOSE i \in keep : \A j \in keep : i <= j
             IN  Slice(s, first - 1, Len(s))

SIG_JPEG == <<255, 216, 255>>
SIG_PNG == <<137, 80, 78, 71, 13, 10, 26, 10>>
SIG_GIF87a == <<71, 73, 70, 56, 55, 97>>
SIG_GIF89a == <<71, 73, 70, 56, 57, 97>>
SIG_RIFF == <<82, 73, 70, 70>>
SIG_WEBP == <<87, 69, 66, 80>>
SIG_BM == <<66, 77>>
SIG_TIFF_II == <<73, 73, 42, 0>>
SIG_TIFF_MM == <<77, 77, 0, 42>>
SIG_ftyp == <<102, 116, 121, 112>>
BRAND_heic == <<104, 101, 105, 99>>
BRAND_heix == <<104, 101, 105, 120>>
BRAND_hevc == <<104, 101, 118, 99>>
BRAND_mif1 == <<109, 105, 102, 49>>
BRAND_msf1 == <<109, 115, 102, 49>>
BRAND_avif == <<97, 118, 105, 102>>
HeicBrands == {BRAND_heic, BRAND_heix, BRAND_hevc, BRAND_mif1, BRAND_msf1, BRAND_avif}
SIG_xml == <<60, 63, 120, 109, 108>>
SIG_svg == <<60, 115, 118, 103>>

\* What a path names: kind is "missing", "dir" or "file"; a file has `data`,
\* its leading bytes, followed by `more` further bytes that nothing reads.
FileSize(f) == Len(f.data) + f.more

\* The header detect_format classifies: None (here <<>> of headers) when open()
\* or read() raises OSError, else the first HeaderLen bytes.
ReadHeader(f) ==
    IF f.kind # "file" \/ ~f.readable THEN None
    ELSE Some(Slice(f.data, 0, HeaderLen))

\* The signature chain of detect_format on a header that was read, with the SVG
\* test made on the header as it is (no lstrip).
ClassifyNoStrip(header) ==
    IF Slice(header, 0, 3) = SIG_JPEG THEN Some("JPEG")
    ELSE IF Slice(header, 0, 8) = SIG_PNG THEN Some("PNG")
    ELSE IF Slice(header, 0, 6) \in {SIG_GIF87a, SIG_GIF89a} THEN Some("GIF")
    ELSE IF Slice(header, 0, 4) = SIG_RIFF /\ Slice(header, 8, 12) = SIG_WEBP THEN Some("WEBP")
    ELSE IF Slice(header, 0, 2) = SIG_BM THEN Some("BMP")
    ELSE IF Slice(header, 0, 4) \in {SIG_TIFF_II, SIG_TIFF_MM} THEN Some("TIFF")
    ELSE IF /\ Len(header) >= 12 /\ Slice(header, 4, 8) = SIG_ftyp
            /\ Slice(header, 8, 12) \in HeicBrands THEN Some("HEIC")
    ELSE IF Slice(header, 0, 5) = SIG_xml \/ Slice(header, 0, 4) = SIG_svg THEN Some("SVG")
    ELSE None

\* The signature chain with RIFF alone taken for WEBP, as the MAGIC_BYTES table
\* lists it.
ClassifyRiffOnly(header) ==
    IF Slice(header, 0, 4) = SIG_RIFF THEN Some("WEBP") ELSE ClassifyNoStrip(LStrip(header))

\* The signature chain of detect_format on a header that was read.
Classify(header) ==
    IF Slice(header, 0, 3) = SIG_JPEG THEN Some("JPEG")
    ELSE IF Slice(header, 0, 8) = SIG_PNG THEN Some("PNG")
    ELSE IF Slice(header, 0, 6) \in {SIG_GIF87a, SIG_GIF89a} THEN Some("GIF")
    ELSE IF Slice(header, 0, 4) = SIG_RIFF /\ Slice(header, 8, 12) = SIG_WEBP THEN Some("WEBP")
    ELSE IF Slice(header, 0, 2) = SIG_BM THEN Some("BMP")
    ELSE IF Slice(header, 0, 4) \in {SIG_TIFF_II, SIG_TIFF_MM} THEN Some("TIFF")
    ELSE IF /\ Len(header) >= 12 /\ Slice(header, 4, 8) = SIG_ftyp
            /\ Slice(header, 8, 12) \in HeicBrands THEN Some("HEIC")
    ELSE LET stripped == LStrip(header)
         IN  IF Slice(stripped, 0, 5) = SIG_xml \/ Slice(stripped, 0, 4) = SIG_svg
             THEN Some("SVG")
             ELSE None

detect_format(f) ==
    LET header == ReadHeader(f)
    IN  IF header = None THEN None ELSE Classify(header[1])

\* validate_input with the size test `size >= max_size`.
validate_input_ge(f, max_size) ==
    IF f.kind = "missing" THEN "NotFound"
    ELSE IF f.kind # "file" THEN "NotAFile"
    ELSE IF FileSize(f) >= max_size THEN "TooLarge"
    ELSE IF detect_format(f) = None THEN "UnsupportedFormat"
    ELSE "ok"

\* validate_input with the format sniffed before the size is looked at.
validate_input_sniff_first(f, max_size) ==
    IF f.kind = "missing" THEN "NotFound"
    ELSE IF f.kind # "file" THEN "NotAFile"
    ELSE IF detect_format(f) = None THEN "UnsupportedFormat"
    ELSE IF FileSize(f) > max_size THEN "TooLarge"
    ELSE "ok"

\* validate_input: "ok" when it returns, else the error it raises.
validate_input(f, max_size) ==
    IF f.kind = "missing" THEN "NotFound"
    ELSE IF f.kind # "file" THEN "NotAFile"
    ELSE IF FileSize(f) > max_size THEN "TooLarge"
    ELSE IF detect_format(f) = None THEN "UnsupportedFormat"
    ELSE "ok"

(***************************************************************************)
(* The contents drawn: one sample per signature and near miss, every       *)
(* truncation of each, and long files around the size ceilings.            *)
(***************************************************************************)
Zeros(n) == [i \in 1..n |-> 0]
Spaces(n) == [i \in 1..n |-> 32]
Padded(s) == s \o Zeros(HeaderLen - Len(s))

Samples ==
    { Padded(SIG_JPEG \o <<224>>),
      Padded(SIG_PNG),
      SIG_GIF87a \o <<1, 0>>,
      SIG_GIF89a \o <<1, 0>>,
      <<71, 73, 70, 56, 56, 97>>,                      \* "GIF88a"
      Padded(SIG_RIFF \o <<36, 0, 0, 0>> \o SIG_WEBP),
      SIG_RIFF \o <<36, 0, 0, 0>> \o <<87, 65, 86, 69>>,  \* RIFF....WAVE
      SIG_RIFF \o SIG_ftyp \o BRAND_heic,
      SIG_BM \o <<0, 0>> \o SIG_ftyp \o BRAND_heic,
      SIG_TIFF_II \o <<8, 0>>,
      SIG_TIFF_MM \o <<0, 8>>,
      <<73, 73, 43, 0>>,                               \* "II" with another magic
      <<0, 0, 0, 24>> \o SIG_ftyp \o <<105, 115, 111, 109>>,  \* ftyp isom
      SIG_xml \o <<32>>,
      SIG_svg \o <<62>>,
      <<32, 10>> \o SIG_svg,
      <<0>> \o SIG_svg,
      Spaces(HeaderLen - 2) \o SIG_svg,
      <<104, 105>> }
        \cup {<<0, 0, 0, 24>> \o SIG_ftyp \o b : b \in HeicBrands}

Prefixes(s) == {Slice(s, 0, n) : n \in 0..Len(s)}
Contents == UNION {Prefixes(s) : s \in Samples}

\* Ceilings tried besides the default, small enough for short files to straddle.
MaxSizes == {0, 12, MAX_FILE_SIZE}

\* Further bytes behind the listed ones, placing a HeaderLen-byte content at
\* one below, exactly at and one above a large ceiling.
MoreAround(ceiling) == {ceiling - HeaderLen + k : k \in {-1, 0, 1}}

Entity(kind, readable, data, more) ==
    [kind |-> kind, readable |-> readable, data |-> data, more |-> more]

Missing == Entity("missing", FALSE, <<>>, 0)
Directory == Entity("dir", FALSE, <<>>, 0)

FilesWith(ceilings) ==
    {Entity("file", r, d, 0) : r \in BOOLEAN, d \in Contents}
        \cup {Entity("file", TRUE, d, m) :
                 d \in {c \in Contents : Len(c) = HeaderLen},
                 m \in UNION {MoreAround(c) : c \in ceilings}}

Entities == {Missing, Directory} \cup FilesWith({MAX_FILE_SIZE})

NoFile == Entity("none", FALSE, <<>>, 0)

ValidateIdle ==
    /\ v_file = NoFile /\ v_max_size = 0 /\ v_fmt = None /\ v_result = "none"
    /\ v_pc = "idle"

ValidateStart ==
    /\ v_file \in Entities
    /\ v_max_size \in MaxSizes
    /\ v_fmt = None
    /\ v_result = "none"
    /\ v_pc = "start"

DetectCall ==
    /\ v_pc = "start"
    /\ v_fmt' = detect_format(v_file)
    /\ v_pc' = "detected"
    /\ UNCHANGED <<v_file, v_max_size, v_result>>
    /\ UNCHANGED <<resolveVars, cliVars, httpVars, laterVars>>

ValidateCall ==
    /\ v_pc = "detected"
    /\ v_result' = validate_input(v_file, v_max_size)
    /\ v_pc' = "done"
    /\ UNCHANGED <<v_file, v_max_size, v_fmt>>
    /\ UNCHANGED <<resolveVars, cliVars, httpVars, laterVars>>

(***************************************************************************)
(* The command line: main, the cmd_* functions and run_batch.              *)
(***************************************************************************)
\* Length bound of the input lists resolve_inputs returns.
MaxInputs == 2

Commands == {"compress", "resize", "crop", "rotate", "convert", "metadata", "info",
             "watermark", "blur-face", "remove-bg", "upscale", "html-to-img", "meme", "edit"}

\* The tool_suffix each cmd_* passes on; a word is one element of the string.
ToolSuffix(cmd) ==
    CASE cmd = "compress" -> <<"compressed">>
      [] cmd = "resize" -> <<"resized">>
      [] cmd = "crop" -> <<"cropped">>
      [] cmd = "rotate" -> <<"rotated">>
      [] cmd = "convert" -> <<"converted">>
      [] cmd = "metadata" -> <<"clean">>
      [] cmd = "watermark" -> <<"watermarked">>
      [] cmd = "blur-face" -> <<"blurred">>
      [] cmd = "meme" -> <<"meme">>
      [] cmd = "remove-bg" -> <<"nobg">>
      [] cmd = "upscale" -> <<"upscaled">>
      [] cmd = "edit" -> <<"edited">>
      [] OTHER -> <<>>

\* The ext each cmd_* passes on: FORMAT_MAP[to_fmt] for convert (here --to png),
\* '.png' for remove-bg, None otherwise.
ForcedExt(cmd) ==
    IF cmd \in {"convert", "remove-bg"} THEN Some(<<".", "png">>) ELSE None

\* The commands that check their own arguments before resolving the inputs:
\* convert (--to in FORMAT_MAP), watermark (text or image), meme (top or
\* bottom), edit (at least one edit flag).
Prechecked == {"convert", "watermark", "meme", "edit"}

\* The commands that take -o/--output and --overwrite.
TakesOutput == Commands \ {"info", "html-to-img"}

\* The flow of a command over its inputs: info and metadata without --strip
\* loop over them printing; the others take the single-input branch or call
\* run_batch.
FlowOf(cmd, args, inputs) ==
    IF cmd = "info" \/ (cmd = "metadata" /\ ~args.strip) THEN "view"
    ELSE IF Len(inputs) = 1 THEN "single"
    ELSE "batch"

\* An exception of an item is caught inside the loop (run_batch, the view
\* loops); in the single-input branch it reaches main.
CaughtInLoop_ViewOnly(mode) == mode = "view"

CaughtInLoop(mode) == mode \in {"batch", "view"}

\* run_batch's return value.
BatchStatus_AlwaysZero(errors) == 0

BatchStatus(errors) == IF errors # <<>> THEN 2 ELSE 0

\* The status the view loops return.
ViewStatus == 0

\* The status of a fatal error: `return 1` of a cmd_* function refusing its
\* arguments, sys.exit(1) of main when no command is given or args.func raises.
ExitFatal == 1
\* The status argparse exits with when parse_args rejects the command line.
ExitArgparse == 2

\* The input at position i has the path d/p...p.p with i letters in the stem.
InputPathAt(i) == <<DirD, [j \in 1..i |-> "p"] \o <<".", "p">>>>

GoodFile == Entity("file", TRUE, Padded(SIG_JPEG \o <<224>>), 0)
Garbage == Entity("file", TRUE, <<104, 105>>, 0)
BigGarbage == Entity("file", TRUE, Zeros(HeaderLen), MAX_FILE_SIZE)
CliEntities == {GoodFile, Missing, Directory, Garbage, BigGarbage}

InputLists ==
    UNION {[1..n -> CliEntities] : n \in 0..MaxInputs}

WithPaths(files) == [i \in 1..Len(files) |-> [path |-> InputPathAt(i), file |-> files[i]]]

\* The input at position i has the path d/p.p...p: the inputs share the stem and
\* differ in the extension, as photo.jpg and photo.gif of one directory do.
SiblingPathAt(i) == <<DirD, <<"p", ".">> \o [j \in 1..i |-> "p"]>>

WithSiblingPaths(files) ==
    [i \in 1..Len(files) |-> [path |-> SiblingPathAt(i), file |-> files[i]]]

CliOutputArgs == {None, Some(<<DirO>>), Some(<<<<"n">>>>), Some(InputPathAt(1))}

DefaultArgs == [parse |-> "ok", valid |-> TRUE, strip |-> FALSE,
                output |-> None, overwrite |-> FALSE]

ArgsOf(cmd) ==
    {[DefaultArgs EXCEPT !.parse = "error"]}
        \cup {[parse |-> "ok", valid |-> v, strip |-> s, output |-> o, overwrite |-> w] :
                 v \in (IF cmd \in Prechecked THEN BOOLEAN ELSE {TRUE}),
                 s \in (IF cmd = "metadata" THEN BOOLEAN ELSE {FALSE}),
                 o \in (IF cmd \in TakesOutput THEN CliOutputArgs
                        ELSE IF cmd = "html-to-img" THEN {None, Some(<<DirO, <<"s">>>>)}
                        ELSE {None}),
                 w \in (IF cmd \in TakesOutput THEN BOOLEAN ELSE {FALSE})}

CliIdle ==
    /\ c_cmd = "" /\ c_args = DefaultArgs /\ c_inputs = <<>> /\ c_mode = "none"
    /\ c_dirs = {} /\ c_i = 0 /\ c_out = <<>> /\ c_success = 0 /\ c_errors = <<>>
    /\ c_written = {} /\ c_calls = <<>> /\ c_rc = None /\ c_pc = "idle"

CliStart ==
    /\ \/ c_cmd = "" /\ c_args = DefaultArgs
       \/ c_cmd \in Commands /\ c_args \in ArgsOf(c_cmd)
    /\ c_inputs = <<>> /\ c_mode = "none"
    /\ c_dirs = ExistingDirs /\ c_i = 0 /\ c_out = <<>> /\ c_success = 0 /\ c_errors = <<>>
    /\ c_written = {} /\ c_calls = <<>> /\ c_rc = None /\ c_pc = "main"

Exit(code) == c_rc' = Some(code) /\ c_pc' = "exited"

\* main up to the call of args.func: parse_args, then the test for a command.
MainParse ==
    /\ c_pc = "main"
    /\ IF c_args.parse = "error" THEN Exit(ExitArgparse)
       ELSE IF c_cmd = "" THEN Exit(ExitFatal)
       ELSE c_pc' = "cmd" /\ UNCHANGED c_rc
    /\ UNCHANGED <<c_cmd, c_args, c_inputs, c_mode, c_dirs, c_i, c_out, c_success,
                   c_errors, c_written, c_calls>>
    /\ UNCHANGED <<resolveVars, validateVars, httpVars, laterVars>>

\* A cmd_* function refusing its own arguments: it prints and returns 1.
CmdUsageError ==
    /\ c_pc = "cmd" /\ c_cmd \in Prechecked /\ ~c_args.valid
    /\ Exit(ExitFatal)
    /\ UNCHANGED <<c_cmd, c_args, c_inputs, c_mode, c_dirs, c_i, c_out, c_success,
                   c_errors, c_written, c_calls>>
    /\ UNCHANGED <<resolveVars, validateVars, httpVars, laterVars>>

\* resolve_inputs raising FileNotFoundError, which main turns into exit 1.
CmdNoInputs ==
    /\ c_pc = "cmd" /\ c_cmd # "html-to-img"
    /\ c_cmd \in Prechecked => c_args.valid
    /\ Exit(ExitFatal)
    /\ UNCHANGED <<c_cmd, c_args, c_inputs, c_mode, c_dirs, c_i, c_out, c_success,
                   c_errors, c_written, c_calls>>
    /\ UNCHANGED <<resolveVars, validateVars, httpVars, laterVars>>

\* resolve_inputs returning a list, and the branch the cmd_* function takes.
CmdResolveInputs ==
    /\ c_pc = "cmd" /\ c_cmd # "html-to-img"
    /\ c_cmd \in Prechecked => c_args.valid
    /\ \E files \in InputLists :
       \E inputs \in {WithPaths(files), WithSiblingPaths(files)} :
          LET mode == FlowOf(c_cmd, c_args, inputs)
          IN  /\ c_inputs' = inputs
              /\ c_mode' = mode
              /\ c_dirs' = c_dirs \cup {inputs[i].path : i \in {j \in 1..Len(inputs) :
                                                              inputs[j].file.kind = "dir"}}
              /\ IF mode = "batch" THEN c_pc' = "run_batch" /\ c_i' = 0 /\ UNCHANGED c_rc
                 ELSE IF inputs = <<>> THEN Exit(ViewStatus) /\ c_i' = 0
                 ELSE c_pc' = "validate" /\ c_i' = 1 /\ UNCHANGED c_rc
    /\ UNCHANGED <<c_cmd, c_args, c_out, c_success, c_errors, c_written, c_calls>>
    /\ UNCHANGED <<resolveVars, validateVars, httpVars, laterVars>>

\* A path exists and is not a directory: it is an input that is a file.
IsExistingFile(p) ==
    \E i \in 1..Len(c_inputs) : c_inputs[i].path = p /\ c_inputs[i].file.kind = "file"

\* Path.mkdir(parents=True, exist_ok=True): the path and its ancestors.
WithParents(p) == {SubSeq(p, 1, n) : n \in 0..Len(p)}

\* run_batch before its loop: the counters, and the mkdir of output_arg when
\* there is more than one input, which raises when that path is a file.
RunBatchStart ==
    /\ c_pc = "run_batch"
    /\ LET mk == ArgGiven(c_args.output) /\ Len(c_inputs) > 1
       IN  IF mk /\ IsExistingFile(c_args.output[1])
           THEN Exit(ExitFatal) /\ UNCHANGED <<c_dirs, c_i>>
           ELSE /\ c_dirs' = IF mk THEN c_dirs \cup WithParents(c_args.output[1]) ELSE c_dirs
                /\ IF c_inputs = <<>>
                   THEN c_pc' = "loop_end" /\ c_i' = 0
                   ELSE c_pc' = "validate" /\ c_i' = 1
                /\ UNCHANGED c_rc
    /\ c_success' = 0 /\ c_errors' = <<>>
    /\ UNCHANGED <<c_cmd, c_args, c_inputs, c_mode, c_out, c_written, c_calls>>
    /\ UNCHANGED <<resolveVars, validateVars, httpVars, laterVars>>

Call(op, res, out) == [op |-> op, item |-> c_i, result |-> res, out |-> out]

\* ItemOver with the error of a failed item put at the head of errors.
ItemOver_ErrorsPrepended(res) ==
    IF c_mode = "single" \/ (res # "ok" /\ ~CaughtInLoop(c_mode))
    THEN /\ Exit(IF res = "ok" THEN 0 ELSE ExitFatal)
         /\ UNCHANGED <<c_i, c_success, c_errors>>
    ELSE /\ c_success' = IF c_mode = "batch" /\ res = "ok" THEN c_success + 1 ELSE c_success
         /\ c_errors' = IF c_mode = "batch" /\ res # "ok"
                        THEN <<[input |-> c_inputs[c_i].path, error |-> res]>> \o c_errors
                        ELSE c_errors
         /\ IF c_i < Len(c_inputs)
            THEN c_i' = c_i + 1 /\ c_pc' = "validate"
            ELSE c_i' = c_i /\ c_pc' = "loop_end"
         /\ UNCHANGED c_rc

\* The item in hand is over, with result "ok" or the exception raised: the
\* single-input branch returns 0 or lets the exception reach main; a loop counts
\* or records it and goes on to the next item.
ItemOver(res) ==
    IF c_mode = "single" \/ (res # "ok" /\ ~CaughtInLoop(c_mode))
    THEN /\ Exit(IF res = "ok" THEN 0 ELSE ExitFatal)
         /\ UNCHANGED <<c_i, c_success, c_errors>>
    ELSE /\ c_success' = IF c_mode = "batch" /\ res = "ok" THEN c_success + 1 ELSE c_success
         /\ c_errors' = IF c_mode = "batch" /\ res # "ok"
                        THEN Append(c_errors, [input |-> c_inputs[c_i].path, error |-> res])
                        ELSE c_errors
         /\ IF c_i < Len(c_inputs)
            THEN c_i' = c_i + 1 /\ c_pc' = "validate"
            ELSE c_i' = c_i /\ c_pc' = "loop_end"
         /\ UNCHANGED c_rc

\* validate_input(inp) of the item in hand.
ItemValidate ==
    /\ c_pc = "validate"
    /\ LET res == validate_input(c_inputs[c_i].file, MAX_FILE_SIZE)
       IN  /\ c_calls' = Append(c_calls, Call("validate_input", res, <<>>))
           /\ IF res = "ok"
              THEN /\ c_pc' = IF c_mode = "view" THEN "process" ELSE "resolve"
                   /\ UNCHANGED <<c_i, c_success, c_errors, c_rc>>
              ELSE ItemOver(res)
    /\ UNCHANGED <<c_cmd, c_args, c_inputs, c_mode, c_dirs, c_out, c_written>>
    /\ UNCHANGED <<resolveVars, validateVars, httpVars, laterVars>>

\* resolve_output, then ensure_parent(out), of the item in hand; the mkdir of
\* ensure_parent makes the missing parents or raises OSError.
ItemResolve ==
    /\ c_pc = "resolve"
    /\ LET r == resolve_output(c_dirs, c_inputs[c_i].path, c_args.output,
                               ToolSuffix(c_cmd), ForcedExt(c_cmd), c_args.overwrite)
           resolved == Call("resolve_output", r.status, r.path)
       IN  IF r.status = "ok"
           THEN \E made \in BOOLEAN :
                   IF made
                   THEN /\ c_calls' = c_calls \o <<resolved, Call("ensure_parent", "ok", r.path)>>
                        /\ c_out' = r.path
                        /\ c_dirs' = c_dirs \cup WithParents(PathParent(r.path))
                        /\ c_pc' = "process"
                        /\ UNCHANGED <<c_i, c_success, c_errors, c_rc>>
                   ELSE /\ c_calls' = c_calls \o <<resolved, Call("ensure_parent", "OSError", r.path)>>
                        /\ ItemOver("OSError")
                        /\ UNCHANGED <<c_out, c_dirs>>
           ELSE /\ c_calls' = Append(c_calls, resolved)
                /\ ItemOver(r.status)
                /\ UNCHANGED <<c_out, c_dirs>>
    /\ UNCHANGED <<c_cmd, c_args, c_inputs, c_mode, c_written>>
    /\ UNCHANGED <<resolveVars, validateVars, httpVars, laterVars>>

\* str.lower() over the letters and words file names are made of.
Lower(s) ==
    [i \in 1..Len(s) |-> IF s[i] = "P" THEN "p" ELSE IF s[i] = "PNG" THEN "png" ELSE s[i]]

\* PurePath.with_suffix: the stem of the name, then the new suffix.
PathWithSuffix(p, suffix) == PathJoin(PathParent(p), PathStem(p) \o suffix)

\* The path a processing function saves to: output_path, but for
\* remove_bg.process_single, which replaces a suffix other than '.png'.
written_path(cmd, out) ==
    IF cmd = "remove-bg" /\ Lower(PathSuffix(out)) # <<".", "png">>
    THEN PathWithSuffix(out, <<".", "png">>)
    ELSE out

\* process_fn / process_single on the item in hand: it decodes the input
\* (open_image) and writes the output, or raises.
ItemProcess ==
    /\ c_pc = "process"
    /\ \E res \in {"ok", "ProcessingError"} :
          /\ c_calls' = Append(c_calls, Call("process", res, c_out))
          /\ c_written' = IF res = "ok" /\ c_mode # "view"
                          THEN c_written \cup {written_path(c_cmd, c_out)} ELSE c_written
          /\ ItemOver(res)
    /\ UNCHANGED <<c_cmd, c_args, c_inputs, c_mode, c_dirs, c_out>>
    /\ UNCHANGED <<resolveVars, validateVars, httpVars, laterVars>>

\* After the loop: run_batch returns 2 when errors is non-empty, else 0; the
\* view loops return 0. main exits with what the command returned.
LoopEnd ==
    /\ c_pc = "loop_end"
    /\ Exit(IF c_mode = "batch" THEN BatchStatus(c_errors) ELSE ViewStatus)
    /\ UNCHANGED <<c_cmd, c_args, c_inputs, c_mode, c_dirs, c_i, c_out, c_success,
                   c_errors, c_written, c_calls>>
    /\ UNCHANGED <<resolveVars, validateVars, httpVars, laterVars>>

\* cmd_html_to_img: no input image; the screenshot is taken or the exception
\* reaches main.
CmdHtmlToImg ==
    /\ c_pc = "cmd" /\ c_cmd = "html-to-img"
    /\ LET out == IF ArgGiven(c_args.output) THEN c_args.output[1]
                  ELSE <<<<"screenshot">>>>
       IN  /\ c_out' = out
           /\ c_dirs' = c_dirs \cup WithParents(PathParent(out))
           /\ \E res \in {"ok", "ProcessingError"} :
                 /\ c_written' = IF res = "ok" THEN c_written \cup {out} ELSE c_written
                 /\ Exit(IF res = "ok" THEN 0 ELSE ExitFatal)
    /\ UNCHANGED <<c_cmd, c_args, c_inputs, c_mode, c_i, c_success, c_errors, c_calls>>
    /\ UNCHANGED <<resolveVars, validateVars, httpVars, laterVars>>

(***************************************************************************)
(* The HTTP adapter: the upload checks and the handlers of src/api/main.py. *)
(***************************************************************************)
MAX_UPLOAD == 20 * 1024 * 1024

\* How many requests a run serves.
MaxRequests == 2

Endpoints == {"compress", "resize", "crop", "rotate", "convert", "info", "metadata",
              "watermark", "blur-face", "remove-bg", "upscale", "meme", "edit",
              "html-to-img"}

\* The endpoints whose handler takes `file: UploadFile`.
UploadEndpoints == Endpoints \ {"html-to-img"}

\* The keys of ALLOWED_MAGIC.
ALLOWED_MAGIC == {SIG_JPEG, <<137, 80, 78, 71>>, <<71, 73, 70, 56>>, SIG_RIFF, SIG_BM,
                  <<73, 73>>, <<77, 77>>}

\* An upload is its leading bytes and the count of the bytes behind them.
UploadLen(u) == Len(u.data) + u.more

Passed(checks) == [status |-> 200, checks |-> checks]
Refused(status, checks) == [status |-> status, checks |-> checks]

\* _validate_upload with the size test `len(data) >= MAX_UPLOAD`.
validate_upload_ge(u) ==
    IF UploadLen(u) >= MAX_UPLOAD THEN Refused(413, <<"size">>)
    ELSE IF \E magic \in ALLOWED_MAGIC : Slice(u.data, 0, Len(magic)) = magic
         THEN Passed(<<"size", "magic">>)
         ELSE Refused(415, <<"size", "magic">>)

\* _validate_upload: the status it raises (200 when it returns) and the checks
\* it made, in order.
validate_upload(u) ==
    IF UploadLen(u) > MAX_UPLOAD THEN Refused(413, <<"size">>)
    ELSE IF \E magic \in ALLOWED_MAGIC : Slice(u.data, 0, Len(magic)) = magic
         THEN Passed(<<"size", "magic">>)
         ELSE Refused(415, <<"size", "magic">>)

\* The handler answers with a JSON body and makes no output file: info, and
\* metadata without strip.
AnswersJson(req) ==
    req.endpoint = "info" \/ (req.endpoint = "metadata" /\ ~req.strip)

\* What a handler does before it reads the upload: html-to-img always raises
\* 501, remove-bg raises 501 when HAS_REMBG is false.
EarlyStatus(endpoint, has_rembg) ==
    IF endpoint = "html-to-img" \/ (endpoint = "remove-bg" /\ ~has_rembg) THEN 501 ELSE 200

Upload(data, more) == [data |-> data, more |-> more]

Uploads ==
    { Upload(Padded(SIG_JPEG \o <<224>>), 0),
      Upload(<<104, 105>>, 0),
      Upload(<<71, 73, 70, 56>>, 0),
      Upload(SIG_RIFF \o <<36, 0, 0, 0>> \o <<87, 65, 86, 69>>, 0) }
        \cup {Upload(Padded(SIG_JPEG \o <<224>>), m) : m \in MoreAround(MAX_UPLOAD)}
        \cup {Upload(Zeros(HeaderLen), m) : m \in MoreAround(MAX_UPLOAD)}

\* What happens to a request before its handler runs: it is let through, or the
\* rate limiter (30/minute) answers 429, or the form fields do not parse (422).
BeforeHandler == {200, 429, 422}

Request(endpoint, upload, strip, before) ==
    [endpoint |-> endpoint, upload |-> upload, strip |-> strip, before |-> before]

NoRequest == Request("", Upload(<<>>, 0), FALSE, 200)
\* A response: the status, the kind of body, and the temp files whose path the
\* text of the body spells out.
NoResponse == [status |-> 0, body |-> "none", names |-> {}]
Response(status, body) == [status |-> status, body |-> body, names |-> {}]

\* Which of the optional packages are installed where the adapter runs.
Deps == [rembg : BOOLEAN, cv2 : BOOLEAN]
NoDeps == [rembg |-> FALSE, cv2 |-> FALSE]

\* HAS_REMBG: whether `from gimg import remove_bg` succeeded.  The module
\* imports rembg inside process_single only, so importing it succeeds with or
\* without rembg installed.
HAS_REMBG(deps) == TRUE

\* How a processor can end for a request: remove_bg.process_single raises
\* ImportError when rembg is missing, blur_face.process_single when cv2 is.
\* Past the imports every processor opens the input with Image.open(path), which
\* raises UnidentifiedImageError for content it cannot decode.
ProcessorOutcomes(endpoint, deps) ==
    IF endpoint = "remove-bg" /\ ~deps.rembg THEN {"ImportError"}
    ELSE IF endpoint = "blur-face" /\ ~deps.cv2 THEN {"ImportError"}
    ELSE {"ok", "ProcessingError", "UnidentifiedImageError"}

\* The temp files named in str(e) of the exception a processor raised: the
\* imaging library's message for a file it cannot identify quotes the file name
\* it was given, which is inp.
str_e(res, inp, out) ==
    IF res = "UnidentifiedImageError" /\ inp # None THEN {inp[1]} ELSE {}

HttpIdle ==
    /\ h_has_rembg = FALSE /\ h_deps = NoDeps
    /\ h_tmp = {} /\ h_made = 0 /\ h_served = 0
    /\ h_req = NoRequest /\ h_inp = None /\ h_out = None /\ h_trace = <<>>
    /\ h_resp = NoResponse /\ h_pc = "off"

HttpStart ==
    /\ h_deps \in Deps
    /\ h_has_rembg = HAS_REMBG(h_deps)
    /\ h_tmp = {} /\ h_made = 0 /\ h_served = 0
    /\ h_req = NoRequest /\ h_inp = None /\ h_out = None /\ h_trace = <<>>
    /\ h_resp = NoResponse /\ h_pc = "idle"

\* The response leaves: the request is answered.
Respond(status, body) ==
    /\ h_resp' = Response(status, body)
    /\ h_pc' = "done"
    /\ h_served' = h_served + 1

\* A request arrives.
HttpReceive ==
    /\ h_pc \in {"idle", "done"}
    /\ h_served < MaxRequests
    /\ \E e \in Endpoints, u \in Uploads, s \in BOOLEAN, b \in BeforeHandler :
          /\ s => e = "metadata"
          /\ e = "html-to-img" => (u = Upload(<<104, 105>>, 0) /\ b # 422)
          /\ h_req' = Request(e, u, s, b)
    /\ h_inp' = None /\ h_out' = None /\ h_trace' = <<>>
    /\ h_resp' = NoResponse
    /\ h_pc' = "route"
    /\ UNCHANGED <<h_has_rembg, h_deps, h_tmp, h_made, h_served>>
    /\ UNCHANGED <<resolveVars, validateVars, cliVars, laterVars>>

\* The request is answered before its handler runs.
HttpRefuse ==
    /\ h_pc = "route" /\ h_req.before # 200
    /\ Respond(h_req.before, "fixed")
    /\ UNCHANGED <<h_has_rembg, h_deps, h_tmp, h_made, h_req, h_inp, h_out, h_trace>>
    /\ UNCHANGED <<resolveVars, validateVars, cliVars, laterVars>>

\* The head of a handler: the capability test of remove-bg and html-to-img,
\* then `data = await file.read()` and _validate_upload(data).
HandlerEnter ==
    /\ h_pc = "route" /\ h_req.before = 200
    /\ IF EarlyStatus(h_req.endpoint, h_has_rembg) # 200
       THEN /\ Respond(EarlyStatus(h_req.endpoint, h_has_rembg), "fixed")
            /\ h_trace' = <<"enter">>
       ELSE LET v == validate_upload(h_req.upload)
            IN  /\ h_trace' = <<"enter", "read">> \o v.checks
                /\ IF v.status # 200
                   THEN Respond(v.status, "fixed")
                   ELSE h_pc' = "save" /\ UNCHANGED <<h_resp, h_served>>
    /\ UNCHANGED <<h_has_rembg, h_deps, h_tmp, h_made, h_req, h_inp, h_out>>
    /\ UNCHANGED <<resolveVars, validateVars, cliVars, laterVars>>

\* inp = _save_upload(data, ext): mkstemp makes a new file, or raises, which
\* nothing in the handler catches.
HandlerSaveUpload ==
    /\ h_pc = "save"
    /\ \E made \in BOOLEAN :
          IF made
          THEN /\ h_made' = h_made + 1
               /\ h_tmp' = h_tmp \cup {h_made + 1}
               /\ h_inp' = Some(h_made + 1)
               /\ h_trace' = Append(h_trace, "save_upload")
               /\ h_pc' = IF AnswersJson(h_req) THEN "process" ELSE "output"
               /\ UNCHANGED <<h_resp, h_served>>
          ELSE /\ Respond(500, "fixed")
               /\ UNCHANGED <<h_made, h_tmp, h_inp, h_trace>>
    /\ UNCHANGED <<h_has_rembg, h_deps, h_req, h_out>>
    /\ UNCHANGED <<resolveVars, validateVars, cliVars, laterVars>>

\* out = _output_path(inp, ...): mkstemp makes a new file, or raises before the
\* handler's try statement is entered.
HandlerOutputPath ==
    /\ h_pc = "output"
    /\ \E made \in BOOLEAN :
          IF made
          THEN /\ h_made' = h_made + 1
               /\ h_tmp' = h_tmp \cup {h_made + 1}
               /\ h_out' = Some(h_made + 1)
               /\ h_trace' = Append(h_trace, "output_path")
               /\ h_pc' = "process"
               /\ UNCHANGED <<h_resp, h_served>>
          ELSE /\ Respond(500, "fixed")
               /\ UNCHANGED <<h_made, h_tmp, h_out, h_trace>>
    /\ UNCHANGED <<h_has_rembg, h_deps, h_req, h_inp>>
    /\ UNCHANGED <<resolveVars, validateVars, cliVars, laterVars>>

Unlink(files, opt) == IF opt = None THEN files ELSE files \ {opt[1]}

\* The try statement of a handler: the processor runs and the response is the
\* output file or the JSON result; when it raises, out is unlinked and the
\* response is 500 with str(e); inp is unlinked in either case.
HandlerProcess ==
    /\ h_pc = "process"
    /\ h_trace' = Append(h_trace, "process")
    /\ \E res \in ProcessorOutcomes(h_req.endpoint, h_deps) :
          IF res = "ok"
          THEN /\ Respond(200, IF AnswersJson(h_req) THEN "json" ELSE "file")
               /\ h_tmp' = Unlink(h_tmp, h_inp)
          ELSE /\ h_resp' = [Response(500, res) EXCEPT !.names = str_e(res, h_inp, h_out)]
               /\ h_pc' = "done"
               /\ h_served' = h_served + 1
               /\ h_tmp' = Unlink(Unlink(h_tmp, h_out), h_inp)
    /\ UNCHANGED <<h_has_rembg, h_deps, h_made, h_req, h_inp, h_out>>
    /\ UNCHANGED <<resolveVars, validateVars, cliVars, laterVars>>


(***************************************************************************)
(* The HTTP adapter serving several requests at once.  Each handler is the  *)
(* same sequence of steps as above; the steps of different requests         *)
(* interleave in any order.  The temp directory is shared by all of them.   *)
(***************************************************************************)
\* How many requests are served side by side.
MaxInFlight == 2

Slots == 1..MaxInFlight

\* How many requests arrive in a run.
MaxArrivals == MaxInFlight

\* The names mkstemp can give.
TempNames == 1..(2 * MaxInFlight)

TempFile(name, owner) == [name |-> name, owner |-> owner]

NamesOn(disk) == {f.name : f \in disk}

\* mkstemp with the exclusive-create test left out: any name will do.
FreshNames_Any(disk) == TempNames

\* tempfile.mkstemp opens the file with O_EXCL: the name it returns is one no
\* file in the directory has.
FreshNames(disk) == TempNames \ NamesOn(disk)

\* The name mkstemp returns.  Names are random and carry no meaning, so the
\* least of the usable ones stands for any of them: a name is taken again as
\* soon as its file is gone.
MkstempNames(disk) ==
    IF FreshNames(disk) = {} THEN {}
    ELSE {CHOOSE n \in FreshNames(disk) : \A m \in FreshNames(disk) : n <= m}

\* The file `name` as the request `owner` created it, in place of whatever had
\* that name.
Create(disk, name, owner) == {f \in disk : f.name # name} \cup {TempFile(name, owner)}

\* path.unlink(missing_ok=True): whatever file has the name is gone.
UnlinkName(disk, opt) == IF opt = None THEN disk ELSE {f \in disk : f.name # opt[1]}

FreeSlot == [id |-> 0, json |-> FALSE, valid |-> FALSE, inp |-> None, out |-> None, pc |-> "free"]

ConcIdle == k_disk = {} /\ k_ids = 0 /\ k_req = <<>>

ConcStart == k_disk = {} /\ k_ids = 0 /\ k_req = [s \in Slots |-> FreeSlot]

\* The request of slot s is answered and the slot is free again.
Answered(s) == k_req' = [k_req EXCEPT ![s] = FreeSlot]

At(s, pc) == s \in DOMAIN k_req /\ k_req[s].pc = pc

\* A request arrives and is routed to its handler, in the first free slot.
KReceive(s) ==
    /\ At(s, "free") /\ k_ids < MaxArrivals
    /\ \A t \in 1..(s - 1) : ~At(t, "free")
    /\ \E json \in BOOLEAN, valid \in BOOLEAN :
          k_req' = [k_req EXCEPT ![s] = [FreeSlot EXCEPT !.id = k_ids + 1, !.json = json,
                                                         !.valid = valid, !.pc = "enter"]]
    /\ k_ids' = k_ids + 1
    /\ UNCHANGED k_disk
    /\ UNCHANGED <<resolveVars, validateVars, cliVars, httpVars, procVars, moreVars>>

\* data = await file.read(); _validate_upload(data): 413 or 415 ends the request.
KEnter(s) ==
    /\ At(s, "enter")
    /\ IF k_req[s].valid
       THEN k_req' = [k_req EXCEPT ![s].pc = "save"]
       ELSE Answered(s)
    /\ UNCHANGED <<k_disk, k_ids>>
    /\ UNCHANGED <<resolveVars, validateVars, cliVars, httpVars, procVars, moreVars>>

\* inp = _save_upload(data, ext); a failing mkstemp ends the request with 500.
KSaveUpload(s) ==
    /\ At(s, "save")
    /\ \/ \E n \in MkstempNames(k_disk) :
             /\ k_disk' = Create(k_disk, n, k_req[s].id)
             /\ k_req' = [k_req EXCEPT ![s].inp = Some(n),
                                       ![s].pc = IF k_req[s].json THEN "process" ELSE "output"]
       \/ Answered(s) /\ UNCHANGED k_disk
    /\ UNCHANGED k_ids
    /\ UNCHANGED <<resolveVars, validateVars, cliVars, httpVars, procVars, moreVars>>

\* out = _output_path(inp, ...); a failing mkstemp ends the request with 500,
\* outside the try statement.
KOutputPath(s) ==
    /\ At(s, "output")
    /\ \/ \E n \in MkstempNames(k_disk) :
             /\ k_disk' = Create(k_disk, n, k_req[s].id)
             /\ k_req' = [k_req EXCEPT ![s].out = Some(n), ![s].pc = "process"]
       \/ Answered(s) /\ UNCHANGED k_disk
    /\ UNCHANGED k_ids
    /\ UNCHANGED <<resolveVars, validateVars, cliVars, httpVars, procVars, moreVars>>

\* The processor reads inp and writes out, and returns or raises.
KProcess(s) ==
    /\ At(s, "process")
    /\ \E ok \in BOOLEAN :
          k_req' = [k_req EXCEPT ![s].pc = IF ok THEN "finally" ELSE "except"]
    /\ UNCHANGED <<k_disk, k_ids>>
    /\ UNCHANGED <<resolveVars, validateVars, cliVars, httpVars, procVars, moreVars>>

\* except Exception: out.unlink(missing_ok=True); raise HTTPException(500, ...).
KExcept(s) ==
    /\ At(s, "except")
    /\ k_disk' = UnlinkName(k_disk, k_req[s].out)
    /\ k_req' = [k_req EXCEPT ![s].pc = "finally_raise"]
    /\ UNCHANGED k_ids
    /\ UNCHANGED <<resolveVars, validateVars, cliVars, httpVars, procVars, moreVars>>

\* finally: inp.unlink(missing_ok=True).  The handler is over: a JSON result or
\* the error is answered at once, a FileResponse has yet to send the file.
KFinally(s) ==
    /\ At(s, "finally") \/ At(s, "finally_raise")
    /\ k_disk' = UnlinkName(k_disk, k_req[s].inp)
    /\ IF k_req[s].pc = "finally" /\ ~k_req[s].json
       THEN k_req' = [k_req EXCEPT ![s].pc = "send"]
       ELSE Answered(s)
    /\ UNCHANGED k_ids
    /\ UNCHANGED <<resolveVars, validateVars, cliVars, httpVars, procVars, moreVars>>

\* The FileResponse sends the file at out; nothing deletes it afterwards.
KSend(s) ==
    /\ At(s, "send")
    /\ Answered(s)
    /\ UNCHANGED <<k_disk, k_ids>>
    /\ UNCHANGED <<resolveVars, validateVars, cliVars, httpVars, procVars, moreVars>>

\* The temp paths a request in flight still reads, writes or has to send.
Held(s) ==
    (IF k_req[s].pc \in {"output", "process", "except", "finally", "finally_raise"}
     THEN {k_req[s].inp[1]} ELSE {})
        \cup (IF k_req[s].pc \in {"process", "except", "finally", "send"} /\ k_req[s].out # None
              THEN {k_req[s].out[1]} ELSE {})

(***************************************************************************)
(* The processing functions: compress, watermark, resize and the editor.    *)
(* Factors, opacity and hue are counted in tenths (brightness 11.0 is 110), *)
(* every other number is the integer the code works with.                   *)
(***************************************************************************)
\* How many arguments one call is given.
MaxArgs == 2

\* An argument as given: a number or a text under a parameter name.
Arg(name, num, str) == [name |-> name, num |-> num, str |-> str]
Num(name, num) == Arg(name, num, "")
Str(name, str) == Arg(name, 0, str)

\* A call into the imaging library: the function, and the parameter and value
\* that the caller's argument became.
LibCall(fn, param, num) == [fn |-> fn, param |-> param, num |-> num]

Rect(x0, y0, x1, y1) == [x0 |-> x0, y0 |-> y0, x1 |-> x1, y1 |-> y1]
Shift(r, dx, dy) == Rect(r.x0 + dx, r.y0 + dy, r.x1 + dx, r.y1 + dy)
InRect(r, x, y) == r.x0 <= x /\ x < r.x1 /\ r.y0 <= y /\ y < r.y1

\* An image in memory: its size (w, h); pic, where the picture that was opened
\* lies, and ring, the outer edge of the border put around it (when bordered),
\* both in the coordinates of the cw x ch canvas that was last scaled to (w, h).
Image(w, h) ==
    [w |-> w, h |-> h, cw |-> w, ch |-> h, pic |-> Rect(0, 0, w, h),
     ring |-> Rect(0, 0, 0, 0), bordered |-> FALSE]

Moved(img, dx, dy, w, h) ==
    [img EXCEPT !.w = w, !.h = h, !.cw = w, !.ch = h,
                !.pic = Shift(img.pic, dx, dy), !.ring = Shift(img.ring, dx, dy)]

Max(a, b) == IF a > b THEN a ELSE b

\* 2^n for n >= 0.
RECURSIVE Pow2(_)
Pow2(n) == IF n <= 0 THEN 1 ELSE 2 * Pow2(n - 1)

\* 2^e modulo L.
RECURSIVE Pow2Mod(_, _)
Pow2Mod(e, L) == IF e = 0 THEN 1 % L ELSE (2 * Pow2Mod(e - 1, L)) % L

\* The t for which 1 <= 2^t * m / L < 2: the binary exponent of m / L, negated.
RECURSIVE ExpUp(_, _, _)
ExpUp(m, L, t) == IF Pow2(t) * m >= L THEN t ELSE ExpUp(m, L, t + 1)
RECURSIVE ExpDown(_, _, _)
ExpDown(m, L, t) == IF m < 2 * L * Pow2(t) THEN 0 - t ELSE ExpDown(m, L, t + 1)
RatioExp(m, L) == IF m < L THEN ExpUp(m, L, 1) ELSE ExpDown(m, L, 0)

\* floor(log2(k)) for k >= 1.
RECURSIVE Log2(_)
Log2(k) == IF k < 2 THEN 0 ELSE 1 + Log2(k \div 2)

\* int(s * (m / L)) for positive integers, in binary64 as Python computes it.
\* ratio = m / L is the multiple N of 2^-e nearest to m / L, with e = 52 + t;
\* it is below m / L by r0 / (L * 2^e) exactly when the remainder r0 of
\* m * 2^e by L is at most L / 2.  s * ratio is then below k = s * m / L by
\* d2 / 2^e with d2 = s * r0 / L, and when k is an integer the product rounds
\* back to k only if d2 / 2^e is at most half the gap 2^(jb - 52) between the
\* doubles under k; otherwise it is a double under k and int() gives k - 1.
TruncMul(s, m, L) ==
    LET t == RatioExp(m, L)
        r0 == ((m % L) * Pow2Mod(52 + t, L)) % L
        k == (s * m) \div L
        j == Log2(k)
        jb == IF Pow2(j) = k THEN j - 1 ELSE j
        x == t + jb - 1
    IN  IF (s * m) % L # 0 \/ r0 = 0 \/ 2 * r0 > L THEN k
        ELSE IF x >= 0 /\ (s * r0) \div L <= Pow2(x) THEN k
        ELSE k - 1

\* int(s * (m / L)) with m >= 0.
IntMulRatio(s, m, L) == IF m = 0 \/ s = 0 THEN 0 ELSE TruncMul(s, m, L)

\* ---- editor.py
\* _clamp(val, lo, hi, name): whether it raises.
clamp_raises(val, lo, hi) == val < lo \/ val > hi

VALID_FILTERS == {"grayscale", "sepia", "blur", "emboss", "contour", "sharpen", "smooth",
                  "invert", "posterize", "solarize", "vintage", "dramatic", "warm", "cool"}

FRAME_MAP == {"polaroid", "rounded", "shadow"}

Ok(img, calls) == [status |-> "ok", img |-> img, calls |-> calls]
Raise(kind, img, calls) == [status |-> kind, img |-> img, calls |-> calls]

\* What _clamp raises, and what an unknown filter, flip or frame name raises.
RangeError == "ValueError: must be between"
NameError == "ValueError: unknown name"

\* apply_brightness, apply_contrast, apply_saturation, apply_sharpness: the
\* factor is clamped to 0.0..10.0 and handed to ImageEnhance.
apply_factor(img, name, factor) ==
    IF clamp_raises(factor, 0, 100) THEN Raise(RangeError, img, <<>>)
    ELSE Ok(img, <<LibCall("enhance", name, factor)>>)

apply_hue(img, degrees) ==
    IF clamp_raises(degrees, -1800, 1800) THEN Raise(RangeError, img, <<>>)
    ELSE Ok(img, <<LibCall("convert", "hue", degrees)>>)

apply_filter(img, name) ==
    IF name \notin VALID_FILTERS THEN Raise(NameError, img, <<>>)
    ELSE Ok(img, <<LibCall("filter", "filter_name", 0)>>)

apply_flip(img, direction) ==
    IF direction = "horizontal"
    THEN Ok([img EXCEPT !.pic = Rect(img.w - img.pic.x1, img.pic.y0, img.w - img.pic.x0, img.pic.y1),
                        !.ring = Rect(img.w - img.ring.x1, img.ring.y0, img.w - img.ring.x0, img.ring.y1)],
            <<LibCall("mirror", "flip", 0)>>)
    ELSE IF direction = "vertical"
    THEN Ok([img EXCEPT !.pic = Rect(img.pic.x0, img.h - img.pic.y1, img.pic.x1, img.h - img.pic.y0),
                        !.ring = Rect(img.ring.x0, img.h - img.ring.y1, img.ring.x1, img.h - img.ring.y0)],
            <<LibCall("flip", "flip", 0)>>)
    ELSE Raise(NameError, img, <<>>)

apply_auto_enhance(img) == Ok(img, <<LibCall("autocontrast", "auto_enhance", 1)>>)

\* apply_border: ImageOps.expand puts `width` pixels of the colour on each side.
apply_border(img, width) ==
    IF clamp_raises(width, 1, 500) THEN Raise(RangeError, img, <<>>)
    ELSE Ok([Moved(img, width, width, img.w + 2 * width, img.h + 2 * width)
                 EXCEPT !.ring = Rect(0, 0, img.w + 2 * width, img.h + 2 * width),
                        !.bordered = TRUE],
            <<LibCall("expand", "border", width)>>)

\* apply_frame_polaroid, apply_frame_rounded, apply_frame_shadow: the size of
\* the canvas and the place the image is pasted at.
apply_frame(img, name) ==
    LET short == Min(img.w, img.h)
        border_side == Max((short * 4) \div 100, 10)
        offset == Max((short * 2) \div 100, 5)
        padding == offset * 3
    IN  IF name \notin FRAME_MAP THEN Raise(NameError, img, <<>>)
        ELSE IF name = "polaroid"
        THEN Ok(Moved(img, border_side, border_side,
                      img.w + border_side * 2 + 6, img.h + border_side + border_side * 3 + 6),
                <<LibCall("paste", "frame", 0)>>)
        ELSE IF name = "shadow"
        THEN Ok(Moved(img, padding, padding, img.w + padding * 2, img.h + padding * 2),
                <<LibCall("paste", "frame", 0)>>)
        ELSE Ok(img, <<LibCall("paste", "frame", 0)>>)

\* apply_thumbnail: the centre square is cropped and scaled to size x size.
apply_thumbnail(img, size) ==
    LET short == Min(img.w, img.h)
        left == (img.w - short) \div 2
        top == (img.h - short) \div 2
    IN  IF clamp_raises(size, 16, 4096) THEN Raise(RangeError, img, <<>>)
        ELSE Ok([Moved(img, 0 - left, 0 - top, short, short) EXCEPT !.w = size, !.h = size],
                <<LibCall("crop", "thumbnail", short), LibCall("resize", "thumbnail", size)>>)

\* The steps of editor.process_single in the order of its if statements, the
\* thumbnail moved to the front.
EditSteps_ThumbnailFirst ==
    <<"thumbnail", "auto_enhance", "brightness", "contrast", "saturation", "sharpness", "hue",
      "filter_name", "flip", "border", "frame">>

\* The steps of editor.process_single in the order of its if statements.
EditSteps ==
    <<"auto_enhance", "brightness", "contrast", "saturation", "sharpness", "hue",
      "filter_name", "flip", "border", "frame", "thumbnail">>

EditParams == {EditSteps[i] : i \in DOMAIN EditSteps}

\* The test process_single makes before a step: `is not None` for the five
\* adjustments, truthiness for the others.
StepEnabled(name, kwargs) ==
    /\ kwargs[name] # None
    /\ IF name \in {"brightness", "contrast", "saturation", "sharpness", "hue"} THEN TRUE
       ELSE IF name \in {"filter_name", "flip", "frame"} THEN kwargs[name][1].str # ""
       ELSE kwargs[name][1].num # 0

apply_step(name, img, arg) ==
    IF name = "auto_enhance" THEN apply_auto_enhance(img)
    ELSE IF name \in {"brightness", "contrast", "saturation", "sharpness"}
    THEN apply_factor(img, name, arg.num)
    ELSE IF name = "hue" THEN apply_hue(img, arg.num)
    ELSE IF name = "filter_name" THEN apply_filter(img, arg.str)
    ELSE IF name = "flip" THEN apply_flip(img, arg.str)
    ELSE IF name = "border" THEN apply_border(img, arg.num)
    ELSE IF name = "frame" THEN apply_frame(img, arg.str)
    ELSE apply_thumbnail(img, arg.num)

\* ---- what a call is given
Ops == {"compress", "watermark", "resize", "edit"}

ParamsOf(op) ==
    IF op = "compress" THEN {"quality"}
    ELSE IF op = "watermark" THEN {"text", "image_wm", "opacity"}
    ELSE IF op = "resize" THEN {"width", "height", "percentage", "max_size"}
    ELSE IF op = "crop" THEN {"x", "y", "width", "height", "ratio"}
    ELSE IF op = "upscale" THEN {"scale", "width", "height"}
    ELSE IF op = "remove-bg" THEN {"model"}
    ELSE IF op = "meme" THEN {"top", "bottom"}
    ELSE EditParams

\* The defaults the argument parser and the form fields give.
DefaultOf(name) ==
    IF name = "quality" THEN Some(Num("quality", 80))
    ELSE IF name = "opacity" THEN Some(Num("opacity", 3))
    ELSE IF name \in {"x", "y"} THEN Some(Num(name, 0))
    ELSE IF name = "scale" THEN Some(Num("scale", 2))
    ELSE IF name = "model" THEN Some(Str("model", "u2net"))
    ELSE None

ArgChoices(op) ==
    IF op = "compress" THEN {Num("quality", q) : q \in {0, 1, 100, 101}}
    ELSE IF op = "watermark"
    THEN {Str("text", "hi"), Str("image_wm", "logo")}
             \cup {Num("opacity", o) : o \in {-1, 0, 10, 15}}
    ELSE IF op = "resize"
    THEN {Num("max_size", m) : m \in {1, 15, 22, 100, 161}}
             \cup {Num("width", 15), Num("height", 15), Num("percentage", 50)}
    ELSE IF op = "upscale"
    THEN {Num("scale", v) : v \in {2, 3, 4}} \cup {Num("width", 30), Num("height", 30)}
    ELSE IF op = "remove-bg" THEN {Str("model", v) : v \in {"u2netp", "mine"}}
    ELSE IF op = "meme" THEN {Str("top", "hi"), Str("top", ""), Str("bottom", "yo")}
    ELSE {Num("auto_enhance", 1)}
             \cup {Num("brightness", v) : v \in {-1, 0, 100, 110}}
             \cup {Num("contrast", v) : v \in {10, 101}}
             \cup {Num("saturation", 101), Num("sharpness", -1)}
             \cup {Num("hue", v) : v \in {-1801, -1800, 1800, 1801}}
             \cup {Str("filter_name", f) : f \in {"sepia", "nope"}}
             \cup {Str("flip", f) : f \in {"horizontal", "diagonal"}}
             \cup {Num("border", v) : v \in {0, 1, 500, 501}}
             \cup {Str("frame", f) : f \in {"polaroid", "oval"}}
             \cup {Num("thumbnail", v) : v \in {0, 15, 16, 4097}}

RECURSIVE ArgLists(_, _)
ArgLists(op, n) ==
    IF n = 0 THEN {<<>>}
    ELSE LET shorter == ArgLists(op, n - 1)
         IN  shorter \cup {Append(l, a) : l \in {x \in shorter : Len(x) = n - 1},
                                          a \in ArgChoices(op)}

\* The keyword arguments the function receives: each parameter once, with the
\* value given last, or its default.
RECURSIVE LastOf(_, _, _)
LastOf(args, name, n) ==
    IF n = 0 THEN DefaultOf(name)
    ELSE IF args[n].name = name THEN Some(args[n])
    ELSE LastOf(args, name, n - 1)

KwargsOf(op, args) == [name \in ParamsOf(op) |-> LastOf(args, name, Len(args))]

Pictures == {[w |-> 22, h |-> 10], [w |-> 10, h |-> 22], [w |-> 20, h |-> 20],
             [w |-> 161, h |-> 100]}

ProcIdle ==
    /\ p_op = "" /\ p_file = [w |-> 0, h |-> 0] /\ p_args = <<>> /\ p_kwargs = <<>>
    /\ p_ext = "" /\ p_img = None /\ p_calls = <<>> /\ p_step = 0 /\ p_result = ""
    /\ p_written = FALSE /\ p_pc = "off"

ProcStart ==
    /\ p_op \in Ops
    /\ p_file \in Pictures
    /\ p_args \in ArgLists(p_op, MaxArgs)
    /\ p_kwargs = KwargsOf(p_op, p_args)
    /\ p_ext \in (IF p_op = "compress" THEN {".jpg", ".png"} ELSE {".jpg"})
    /\ p_img = None /\ p_calls = <<>> /\ p_step = 0 /\ p_result = ""
    /\ p_written = FALSE /\ p_pc = "open"

\* The function is over, with "ok" or the exception it raised.
ProcOver(res) == p_result' = res /\ p_pc' = "done"

\* What the library does with a value outside the range it documents: it takes
\* it or it raises.
LibraryTakes(ok) == IF ok THEN {"ok"} ELSE {"ok", "LibraryError"}

\* img = open_image(input_path), the first statement of every process_single.
OpenImage ==
    /\ p_pc = "open"
    /\ p_calls' = <<LibCall("open_image", "", 0)>>
    /\ \/ /\ p_img' = Some(Image(p_file.w, p_file.h))
          /\ p_pc' = "body" /\ p_step' = 1
          /\ UNCHANGED p_result
       \/ /\ ProcOver("LibraryError")
          /\ UNCHANGED <<p_img, p_step>>
    /\ UNCHANGED <<p_op, p_file, p_args, p_kwargs, p_ext, p_written>>
    /\ UNCHANGED <<resolveVars, validateVars, cliVars, httpVars, concVars, moreVars>>

\* img.save(...) with the calls that came before it in the same statement list.
SaveWith(calls, taken) ==
    /\ p_calls' = p_calls \o calls
    /\ \E res \in LibraryTakes(taken) :
          /\ ProcOver(res)
          /\ p_written' = (res = "ok")

\* compress.process_single after open_image: quality goes to img.save unless the
\* output is a .png.
CompressBody ==
    /\ p_pc = "body" /\ p_op = "compress"
    /\ LET quality == p_kwargs["quality"][1].num
       IN  IF p_ext = ".png"
           THEN SaveWith(<<LibCall("save", "compress_level", 9)>>, TRUE)
           ELSE SaveWith(<<LibCall("save", "quality", quality)>>, quality \in 1..100)
    /\ UNCHANGED <<p_op, p_file, p_args, p_kwargs, p_ext, p_img, p_step>>
    /\ UNCHANGED <<resolveVars, validateVars, cliVars, httpVars, concVars, moreVars>>

\* int(opacity * 255), opacity in tenths.
AlphaOf(opacity) ==
    IF opacity >= 0 THEN IntMulRatio(255, opacity, 10) ELSE 0 - IntMulRatio(255, 0 - opacity, 10)

\* watermark.process_single after open_image: a text is drawn with the alpha
\* int(opacity * 255); else an image is pasted with its alpha scaled by opacity
\* when opacity < 1.0; with neither the picture is saved as it is.
WatermarkBody ==
    /\ p_pc = "body" /\ p_op = "watermark"
    /\ LET opacity == p_kwargs["opacity"][1].num
           has(name) == p_kwargs[name] # None
       IN  IF has("text")
           THEN SaveWith(<<LibCall("text", "opacity", AlphaOf(opacity)),
                           LibCall("save", "", 0)>>, AlphaOf(opacity) \in 0..255)
           ELSE IF has("image_wm")
           THEN IF opacity < 10
                THEN SaveWith(<<LibCall("point", "opacity", opacity), LibCall("save", "", 0)>>,
                              opacity \in 0..10)
                ELSE SaveWith(<<LibCall("paste", "", 0), LibCall("save", "", 0)>>, TRUE)
           ELSE SaveWith(<<LibCall("save", "", 0)>>, TRUE)
    /\ UNCHANGED <<p_op, p_file, p_args, p_kwargs, p_ext, p_img, p_step>>
    /\ UNCHANGED <<resolveVars, validateVars, cliVars, httpVars, concVars, moreVars>>

\* The max_size branch of resize.process_single:
\* ratio = min(max_size / orig_w, max_size / orig_h), the quotient by the larger
\* side; at ratio >= 1 the size is kept, else both sides are int(side * ratio).
fit_max_size(orig_w, orig_h, max_size) ==
    IF max_size >= Max(orig_w, orig_h) THEN [w |-> orig_w, h |-> orig_h]
    ELSE [w |-> IntMulRatio(orig_w, max_size, Max(orig_w, orig_h)),
          h |-> IntMulRatio(orig_h, max_size, Max(orig_w, orig_h))]

\* new_w, new_h of resize.process_single, None when it raises ValueError for
\* want of any size argument.
new_size(orig_w, orig_h, kwargs) ==
    LET given(name) == kwargs[name] # None
        val(name) == kwargs[name][1].num
        truthy(name) == given(name) /\ val(name) # 0
    IN  IF given("percentage")
        THEN Some([w |-> (orig_w * val("percentage")) \div 100,
                   h |-> (orig_h * val("percentage")) \div 100])
        ELSE IF given("max_size") THEN Some(fit_max_size(orig_w, orig_h, val("max_size")))
        ELSE IF truthy("width") /\ truthy("height")
        THEN Some([w |-> val("width"), h |-> val("height")])
        ELSE IF truthy("width")
        THEN Some([w |-> val("width"), h |-> IntMulRatio(orig_h, val("width"), orig_w)])
        ELSE IF truthy("height")
        THEN Some([w |-> IntMulRatio(orig_w, val("height"), orig_h), h |-> val("height")])
        ELSE None

\* resize.process_single after open_image.
ResizeBody ==
    /\ p_pc = "body" /\ p_op = "resize"
    /\ LET size == new_size(p_file.w, p_file.h, p_kwargs)
       IN  IF size = None
           THEN /\ ProcOver("ValueError: specify a size")
                /\ UNCHANGED <<p_img, p_calls, p_written>>
           ELSE /\ p_img' = Some([Image(p_file.w, p_file.h) EXCEPT !.w = size[1].w, !.h = size[1].h])
                /\ SaveWith(<<LibCall("resize", "w", size[1].w), LibCall("resize", "h", size[1].h),
                              LibCall("save", "", 0)>>, size[1].w > 0 /\ size[1].h > 0)
    /\ UNCHANGED <<p_op, p_file, p_args, p_kwargs, p_ext, p_step>>
    /\ UNCHANGED <<resolveVars, validateVars, cliVars, httpVars, concVars, moreVars>>

\* The steps from p_step on whose test passes.
StepsLeft(steps, from, kwargs) ==
    {i \in from..Len(steps) : StepEnabled(steps[i], kwargs)}

SetMin(S) == CHOOSE i \in S : \A j \in S : i <= j

\* editor.process_single: the next step whose test passes is applied.
EditStep ==
    /\ p_pc = "body" /\ p_op = "edit"
    /\ StepsLeft(EditSteps, p_step, p_kwargs) # {}
    /\ LET i == SetMin(StepsLeft(EditSteps, p_step, p_kwargs))
           r == apply_step(EditSteps[i], p_img[1], p_kwargs[EditSteps[i]][1])
       IN  /\ p_calls' = p_calls \o r.calls
           /\ p_img' = Some(r.img)
           /\ IF r.status = "ok"
              THEN p_step' = i + 1 /\ UNCHANGED <<p_result, p_pc>>
              ELSE ProcOver(r.status) /\ UNCHANGED p_step
    /\ UNCHANGED <<p_op, p_file, p_args, p_kwargs, p_ext, p_written>>
    /\ UNCHANGED <<resolveVars, validateVars, cliVars, httpVars, concVars, moreVars>>

\* editor.process_single: no step is left, img.save(output_path, quality=95).
EditSave ==
    /\ p_pc = "body" /\ p_op = "edit"
    /\ StepsLeft(EditSteps, p_step, p_kwargs) = {}
    /\ SaveWith(<<LibCall("save", "", 0)>>, TRUE)
    /\ UNCHANGED <<p_op, p_file, p_args, p_kwargs, p_ext, p_img, p_step>>
    /\ UNCHANGED <<resolveVars, validateVars, cliVars, httpVars, concVars, moreVars>>

(***************************************************************************)
(* crop.process_single.  The text of --ratio is a sequence of tokens, a    *)
(* numeral or the colon, so that split(':') and float() work on the text.  *)
(***************************************************************************)
\* int(s / (m / L)) for positive integers, in binary64 as Python computes it.
\* ratio = m / L is rounded as in TruncMul; the quotient differs from
\* floor(s * L / m) only when s * L / m is an integer k and ratio was rounded
\* up, by L - r0 parts in L * 2^e: s / ratio is then under k, and int() gives
\* k - 1 unless it is within half the gap between the doubles under k.
TruncDiv(s, m, L) ==
    LET t == RatioExp(m, L)
        r0 == ((m % L) * Pow2Mod(52 + t, L)) % L
        k == (s * L) \div m
        j == Log2(k)
        jb == IF Pow2(j) = k THEN j - 1 ELSE j
        x == t + jb - 1
    IN  IF (s * L) % m # 0 \/ r0 = 0 \/ 2 * r0 < L THEN k
        ELSE IF x >= 0 THEN (IF k * (L - r0) <= m * Pow2(x) THEN k ELSE k - 1)
        ELSE (IF k * (L - r0) * Pow2(0 - x) <= m THEN k ELSE k - 1)

\* str.split(sep) on tokens.
RECURSIVE Split(_, _)
Split(text, sep) ==
    IF \A k \in 1..Len(text) : text[k] # sep THEN <<text>>
    ELSE LET at == CHOOSE k \in 1..Len(text) :
                       text[k] = sep /\ \A j \in 1..(k - 1) : text[j] # sep
         IN  <<SubSeq(text, 1, at - 1)>> \o Split(SubSeq(text, at + 1, Len(text)), sep)

\* float(part): the value of a numeral, None when float() raises ValueError.
float_of(part) ==
    IF Len(part) # 1 THEN None
    ELSE IF part[1] = "0" THEN Some(0)
    ELSE IF part[1] = "1" THEN Some(1)
    ELSE IF part[1] = "3" THEN Some(3)
    ELSE IF part[1] = "4" THEN Some(4)
    ELSE IF part[1] = "5" THEN Some(5)
    ELSE IF part[1] = "9" THEN Some(9)
    ELSE IF part[1] = "11" THEN Some(11)
    ELSE IF part[1] = "16" THEN Some(16)
    ELSE None

Box(rect) == [status |-> "ok", box |-> rect]
NoBox(kind) == [status |-> kind, box |-> Rect(0, 0, 0, 0)]

\* The box of the ratio branch, put at the corner instead of the middle.
ratio_box_AtCorner(img_w, img_h, rw, rh) ==
    LET wide == img_w * rh > rw * img_h
        new_w == IF wide THEN IntMulRatio(img_h, rw, rh) ELSE img_w
        new_h == IF wide THEN img_h ELSE TruncDiv(img_w, rw, rh)
    IN  Rect(0, 0, new_w, new_h)

\* The box of the ratio branch for target_ratio = rw / rh with rh > 0:
\* current_ratio > target_ratio crops the width to int(img_h * target_ratio),
\* else the height to int(img_w / target_ratio); the box is put in the middle.
ratio_box(img_w, img_h, rw, rh) ==
    LET wide == img_w * rh > rw * img_h
        new_w == IF wide THEN IntMulRatio(img_h, rw, rh) ELSE img_w
        new_h == IF wide THEN img_h ELSE TruncDiv(img_w, rw, rh)
        cx == (img_w - new_w) \div 2
        cy == (img_h - new_h) \div 2
    IN  Rect(cx, cy, cx + new_w, cy + new_h)

\* `if ratio:` of crop.process_single.
RatioGiven(kwargs) == kwargs["ratio"] # None /\ kwargs["ratio"][1].str # <<>>

\* The box crop.process_single hands to img.crop, or the exception it raises
\* before: a ratio text that is not two numerals around a colon, a zero after
\* the colon, or no ratio and not both of width and height.
crop_box(img_w, img_h, kwargs) ==
    IF RatioGiven(kwargs)
    THEN LET parts == Split(kwargs["ratio"][1].str, ":")
         IN  IF Len(parts) # 2 THEN NoBox("ValueError: invalid ratio format")
             ELSE IF float_of(parts[1]) = None \/ float_of(parts[2]) = None
             THEN NoBox("ValueError: could not convert string to float")
             ELSE IF float_of(parts[2])[1] = 0 THEN NoBox("ZeroDivisionError")
             ELSE Box(ratio_box(img_w, img_h, float_of(parts[1])[1], float_of(parts[2])[1]))
    ELSE IF kwargs["width"] = None \/ kwargs["height"] = None
    THEN NoBox("ValueError: specify width and height, or ratio")
    ELSE LET x == kwargs["x"][1].num
             y == kwargs["y"][1].num
         IN  Box(Rect(Max(0, x), Max(0, y),
                      Min(img_w, x + kwargs["width"][1].num),
                      Min(img_h, y + kwargs["height"][1].num)))

\* The ratio texts tried: 16:9, 9:16, 4:3, 1:1, 11:5, 0:1, 1:0, "16 9" without
\* the colon, 1:3:4, and a text float() refuses.
RatioTexts ==
    {<<"16", ":", "9">>, <<"9", ":", "16">>, <<"4", ":", "3">>, <<"1", ":", "1">>,
     <<"11", ":", "5">>, <<"0", ":", "1">>, <<"1", ":", "0">>, <<"16", "9">>,
     <<"1", ":", "3", ":", "4">>, <<"wide", ":", "1">>, <<"16", ":">>}

\* The arguments crop is called with: all four of x, y, width, height, a width
\* alone, nothing, a ratio, and a ratio next to a width and a height.
CropArgLists ==
    {<<Num("x", x), Num("y", y), Num("width", w), Num("height", h)>> :
         x \in {-3, 0, 5, 30}, y \in {0, 4}, w \in {-5, 0, 8, 200}, h \in {0, 6}}
        \cup {<<>>, <<Num("width", 8)>>}
        \cup {<<Str("ratio", text)>> : text \in RatioTexts}
        \cup {<<Str("ratio", <<"1", ":", "1">>), Num("width", 8), Num("height", 6)>>,
              <<Str("ratio", <<>>), Num("width", 8), Num("height", 6)>>}

CropStart ==
    /\ p_op = "crop"
    /\ p_file \in Pictures
    /\ p_args \in CropArgLists
    /\ p_kwargs = KwargsOf("crop", p_args)
    /\ p_ext = ".jpg"
    /\ p_img = None /\ p_calls = <<>> /\ p_step = 0 /\ p_result = ""
    /\ p_written = FALSE /\ p_pc = "open"

\* crop.process_single after open_image: the box is computed, img.crop(box)
\* and cropped.save follow.  The library is sure to take a box that is inside
\* the image and not empty.
CropBody ==
    /\ p_pc = "body" /\ p_op = "crop"
    /\ LET r == crop_box(p_file.w, p_file.h, p_kwargs)
           b == r.box
       IN  IF r.status # "ok"
           THEN /\ ProcOver(r.status)
                /\ UNCHANGED <<p_img, p_calls, p_written>>
           ELSE /\ p_img' = Some(Moved(p_img[1], 0 - b.x0, 0 - b.y0, b.x1 - b.x0, b.y1 - b.y0))
                /\ SaveWith(<<LibCall("crop", "left", b.x0), LibCall("crop", "upper", b.y0),
                              LibCall("crop", "right", b.x1), LibCall("crop", "lower", b.y1),
                              LibCall("save", "", 0)>>,
                            /\ 0 <= b.x0 /\ b.x0 < b.x1 /\ b.x1 <= p_file.w
                            /\ 0 <= b.y0 /\ b.y0 < b.y1 /\ b.y1 <= p_file.h)
    /\ UNCHANGED <<p_op, p_file, p_args, p_kwargs, p_ext, p_step>>
    /\ UNCHANGED <<resolveVars, validateVars, cliVars, httpVars, concVars, moreVars>>

(***************************************************************************)
(* resolve_inputs (src/gimg/utils.py) on one directory d.  A name is the   *)
(* sequence of its character codes, so that suffix tests, upper() and the  *)
(* sort order are computed on the text.                                    *)
(***************************************************************************)
SUPPORTED_READ ==
    {
      <<46, 106, 112, 103>>,                        \* .jpg
      <<46, 106, 112, 101, 103>>,                   \* .jpeg
      <<46, 112, 110, 103>>,                        \* .png
      <<46, 103, 105, 102>>,                        \* .gif
      <<46, 119, 101, 98, 112>>,                    \* .webp
      <<46, 98, 109, 112>>,                         \* .bmp
      <<46, 116, 105, 102, 102>>,                   \* .tiff
      <<46, 116, 105, 102>>,                        \* .tif
      <<46, 104, 101, 105, 99>>,                    \* .heic
      <<46, 104, 101, 105, 102>>,                   \* .heif
      <<46, 115, 118, 103>>                         \* .svg
    }

\* str.upper() on character codes.
Upper(s) == [k \in 1..Len(s) |-> IF s[k] \in 97..122 THEN s[k] - 32 ELSE s[k]]

StartsWith(s, t) == Len(s) >= Len(t) /\ SubSeq(s, 1, Len(t)) = t
EndsWith(s, t) == Len(s) >= Len(t) /\ SubSeq(s, Len(s) - Len(t) + 1, Len(s)) = t

\* s < t as Python orders strings: by the first code that differs, a proper
\* prefix first.
RECURSIVE LexLess(_, _)
LexLess(s, t) ==
    IF t = <<>> THEN FALSE
    ELSE IF s = <<>> THEN TRUE
    ELSE IF Head(s) # Head(t) THEN Head(s) < Head(t)
    ELSE LexLess(Tail(s), Tail(t))

\* sorted(S) of a set of names.
RECURSIVE Sorted(_)
Sorted(S) ==
    IF S = {} THEN <<>>
    ELSE LET least == CHOOSE a \in S : \A b \in S \ {a} : LexLess(a, b)
         IN  <<least>> \o Sorted(S \ {least})

Entry(name, kind) == [name |-> name, kind |-> kind]

\* What directory d may hold: a.jpg, b.txt, a directory named c.png, e.JPG and
\* f.Jpg.
DirEntries ==
    {Entry(<<97, 46, 106, 112, 103>>, "file"),
     Entry(<<98, 46, 116, 120, 116>>, "file"),
     Entry(<<99, 46, 112, 110, 103>>, "dir"),
     Entry(<<101, 46, 74, 80, 71>>, "file"),
     Entry(<<102, 46, 74, 112, 103>>, "file")}

\* input_arg: the text "d", "d/<prefix>" or "d/<prefix>*<suffix>".
InputArg(kind, prefix, suffix) == [kind |-> kind, prefix |-> prefix, suffix |-> suffix]

InputArgs ==
    {InputArg("dir", <<>>, <<>>)}
        \cup {InputArg("name", n, <<>>) :
                 n \in {<<97, 46, 106, 112, 103>>, <<98, 46, 116, 120, 116>>, <<99, 46, 112, 110, 103>>, <<122, 46, 106, 112, 103>>}}
        \cup {InputArg("pattern", pre, suf) :
                 pre \in {<<>>, <<99>>},
                 suf \in {<<>>, <<46, 106, 112, 103>>, <<46, 112, 110, 103>>, <<46, 103, 105, 102>>}}

\* fnmatch of a name against the last component of input_arg.
Matches(name, arg) ==
    IF arg.kind = "pattern"
    THEN /\ Len(name) >= Len(arg.prefix) + Len(arg.suffix)
         /\ StartsWith(name, arg.prefix) /\ EndsWith(name, arg.suffix)
    ELSE arg.kind = "name" /\ name = arg.prefix

\* Path(input_arg).is_file() and .is_dir() with the entries fs in d.
arg_is_file(fs, arg) == arg.kind = "name" /\ Entry(arg.prefix, "file") \in fs
arg_is_dir(fs, arg) ==
    arg.kind = "dir" \/ (arg.kind = "name" /\ Entry(arg.prefix, "dir") \in fs)

Listed(paths) == [status |-> "ok", paths |-> paths]
NotFound == [status |-> "FileNotFoundError", paths |-> <<>>]

\* resolve_inputs: a file gives the one path; a directory gives the sorted
\* entries whose name ends in a supported extension, in lower or upper case
\* (a directory named in d is taken as empty); anything else is globbed, and
\* when something matches the matches that are files are returned sorted.
resolve_inputs(fs, arg) ==
    IF arg_is_file(fs, arg) THEN Listed(<<arg.prefix>>)
    ELSE IF arg_is_dir(fs, arg)
    THEN LET inside == IF arg.kind = "dir" THEN fs ELSE {}
         IN  Listed(Sorted({e.name : e \in {x \in inside :
                     \E ext \in SUPPORTED_READ :
                         EndsWith(x.name, ext) \/ EndsWith(x.name, Upper(ext))}}))
    ELSE LET matches == {e \in fs : Matches(e.name, arg)}
         IN  IF matches # {}
             THEN Listed(Sorted({e.name : e \in {x \in matches : x.kind = "file"}}))
             ELSE NotFound

NotCalled == [status |-> "none", paths |-> <<>>]

InputsIdle ==
    /\ i_fs = {} /\ i_arg = InputArg("dir", <<>>, <<>>) /\ i_result = NotCalled /\ i_pc = "idle"

InputsStart ==
    /\ i_fs \in SUBSET DirEntries
    /\ i_arg \in InputArgs
    /\ i_result = NotCalled
    /\ i_pc = "call"

ResolveInputsCall ==
    /\ i_pc = "call"
    /\ i_result' = resolve_inputs(i_fs, i_arg)
    /\ i_pc' = "done"
    /\ UNCHANGED <<i_fs, i_arg>>
    /\ UNCHANGED <<resolveVars, validateVars, cliVars, httpVars, concVars, procVars,
                   frontVars, pureVars, modeVars>>

(***************************************************************************)
(* One request put to both front ends: what the command line (argparse,    *)
(* the cmd_* function, the processor) and what the HTTP adapter (the form  *)
(* fields, the handler, the processor) make of the same operation and      *)
(* parameters.  A request is rejected when the repository's code refuses   *)
(* it for its parameters.                                                  *)
(***************************************************************************)
FrontOps == {"compress", "watermark", "edit", "upscale", "remove-bg", "meme"}

\* The form fields of the handlers (api/main.py), of the parameters modelled.
HttpFields(op) ==
    IF op = "edit" THEN EditParams \ {"hue"}
    ELSE IF op = "watermark" THEN {"text", "opacity"}
    ELSE IF op = "upscale" THEN {"scale"}
    ELSE IF op = "remove-bg" THEN {"model"}
    ELSE IF op = "meme" THEN {"top", "bottom"}
    ELSE {"quality"}

RECURSIVE ListsOver(_, _)
ListsOver(S, n) ==
    IF n = 0 THEN {<<>>}
    ELSE LET shorter == ListsOver(S, n - 1)
         IN  shorter \cup {Append(l, a) : l \in {x \in shorter : Len(x) = n - 1}, a \in S}

\* `choices=` of the argument parser: the values a parameter is held to.
argparse_rejects(op, kwargs) ==
    LET given(name) == name \in DOMAIN kwargs /\ kwargs[name] # None
    IN  \/ op = "upscale" /\ given("scale") /\ kwargs["scale"][1].num \notin {2, 4}
        \/ op = "remove-bg" /\ given("model")
              /\ kwargs["model"][1].str \notin {"u2net", "u2netp", "isnet-general-use"}
        \/ op = "edit" /\ given("filter_name") /\ kwargs["filter_name"][1].str \notin VALID_FILTERS
        \/ op = "edit" /\ given("flip")
              /\ kwargs["flip"][1].str \notin {"horizontal", "vertical"}
        \/ op = "edit" /\ given("frame") /\ kwargs["frame"][1].str \notin FRAME_MAP

\* `not x` of a text argument: absent or empty.
Falsy(kwargs, name) == kwargs[name] = None \/ kwargs[name][1].str = ""

\* The test a cmd_* function makes before it resolves the inputs.
cmd_rejects(op, kwargs) ==
    \/ op = "watermark" /\ Falsy(kwargs, "text") /\ Falsy(kwargs, "image_wm")
    \/ op = "meme" /\ Falsy(kwargs, "top") /\ Falsy(kwargs, "bottom")
    \/ op = "edit" /\ \A name \in EditParams : ~StepEnabled(name, kwargs)

\* The ValueError a process_single raises for its parameters: the editor for a
\* value _clamp refuses or a name it does not know in a step it takes, meme
\* for want of any text.
processor_rejects(op, kwargs) ==
    \/ op = "edit" /\ \E name \in EditParams :
                         /\ StepEnabled(name, kwargs)
                         /\ apply_step(name, Image(20, 20), kwargs[name][1]).status # "ok"
    \/ op = "meme" /\ Falsy(kwargs, "top") /\ Falsy(kwargs, "bottom")

Verdict(rejected) == IF rejected THEN "rejected" ELSE "accepted"

cli_front(op, kwargs) ==
    Verdict(argparse_rejects(op, kwargs) \/ cmd_rejects(op, kwargs)
                \/ processor_rejects(op, kwargs))

\* The handlers make no test of their own on the parameters and hand them to
\* the processor: a form value left out stays out or is None, and remove_bg
\* goes on without a session when new_session(model) raises.
http_front(op, kwargs) == Verdict(processor_rejects(op, kwargs))

FrontIdle == f_op = "" /\ f_params = <<>> /\ f_cli = "" /\ f_http = ""

FrontStart ==
    /\ f_op \in FrontOps
    /\ \E args \in ListsOver({a \in ArgChoices(f_op) : a.name \in HttpFields(f_op)}, MaxArgs) :
          f_params = KwargsOf(f_op, args)
    /\ f_cli = "" /\ f_http = ""

FrontCli ==
    /\ f_op # "" /\ f_cli = ""
    /\ f_cli' = cli_front(f_op, f_params)
    /\ UNCHANGED <<f_op, f_params, f_http>>
    /\ UNCHANGED <<resolveVars, validateVars, cliVars, httpVars, concVars, procVars,
                   inputsVars, pureVars, modeVars>>

FrontHttp ==
    /\ f_op # "" /\ f_http = ""
    /\ f_http' = http_front(f_op, f_params)
    /\ UNCHANGED <<f_op, f_params, f_cli>>
    /\ UNCHANGED <<resolveVars, validateVars, cliVars, httpVars, concVars, procVars,
                   inputsVars, pureVars, modeVars>>

(***************************************************************************)
(* editor.process_single called several times in one process, with a      *)
(* filter.  _vintage and _dramatic add grain drawn with np.random.normal   *)
(* from numpy's global generator, which nothing in the repository seeds.   *)
(***************************************************************************)
\* How many invocations one process makes.
MaxRuns == 2

\* The filters that read the random generator.
GrainFilters == {"vintage", "dramatic"}

\* The input images, told apart by one pixel value.
Pixels == {0, 128}

\* The seeds the generator may have been started with.
Seeds == {1, 2}

\* The output of apply_filter as what determines it: the filter, the input,
\* and for a filter with grain the stretch of the random stream it read.
filter_output(name, pixel, rng) ==
    [filter |-> name, of |-> pixel,
     grain |-> IF name \in GrainFilters THEN <<rng.seed, rng.pos>> ELSE <<>>]

\* The generator after the filter: a filter with grain has read on.
rng_after(name, rng) ==
    IF name \in GrainFilters THEN [rng EXCEPT !.pos = rng.pos + 1] ELSE rng

PureIdle == n_rng = [seed |-> 0, pos |-> 0] /\ n_runs = <<>>

PureStart == n_rng \in [seed : Seeds, pos : {0}] /\ n_runs = <<>>

\* One more call of editor.process_single(inp, out, filter_name=name).
EditorInvoke ==
    /\ n_rng.seed # 0 /\ Len(n_runs) < MaxRuns
    /\ \E name \in VALID_FILTERS, pixel \in Pixels :
          /\ n_runs' = Append(n_runs, [filter |-> name, input |-> pixel,
                                       output |-> filter_output(name, pixel, n_rng)])
          /\ n_rng' = rng_after(name, n_rng)
    /\ UNCHANGED <<resolveVars, validateVars, cliVars, httpVars, concVars, procVars,
                   inputsVars, frontVars, modeVars>>

\* Nothing of the later parts is running.
(***************************************************************************)
(* The colour mode of the image from open_image to img.save, for every     *)
(* process_single that writes an image file.                               *)
(***************************************************************************)
Modes == {"RGB", "RGBA", "L", "LA", "P"}

\* An input file: its mode, and whether img.info has a 'transparency' entry.
ModeFile(mode, transparency) == [mode |-> mode, transparency |-> transparency]
ModeFiles == {ModeFile(mode, FALSE) : mode \in Modes} \cup {ModeFile("P", TRUE)}

ModeOps == {"compress", "convert", "resize", "crop", "rotate", "strip", "watermark", "meme",
            "blur-face", "upscale", "edit"}

\* The steps of the editor by what they do to the mode, in the order of
\* process_single.  "brightness" stands for the four ImageEnhance adjustments,
\* "blur" for the filters that are one img.filter call (blur, emboss, contour,
\* sharpen, smooth), "grayscale" for the filters that return an RGB image
\* (grayscale, sepia, posterize, solarize, vintage, dramatic, warm, cool).
ModeSteps ==
    <<"auto_enhance", "brightness", "hue", "blur", "invert", "grayscale", "flip", "border",
      "frame", "thumbnail">>

FilterSteps == {"blur", "invert", "grayscale"}

\* The mode of the image a step returns.
step_mode(step, mode) ==
    IF step \in {"auto_enhance", "invert"} THEN (IF mode = "RGBA" THEN "RGBA" ELSE "RGB")
    ELSE IF step \in {"hue", "grayscale", "frame", "thumbnail"} THEN "RGB"
    ELSE mode

RECURSIVE steps_mode(_, _, _)
steps_mode(mode, steps, i) ==
    IF i > Len(ModeSteps) THEN mode
    ELSE steps_mode(IF ModeSteps[i] \in steps THEN step_mode(ModeSteps[i], mode) ELSE mode,
                    steps, i + 1)

\* The mode of the image when the function comes to its save: watermark and
\* meme work on open_image(...).convert('RGBA'), blur_face on .convert('RGB'),
\* the editor converts a palette image first and then takes its steps; resize,
\* crop, rotate and the rest keep the mode of the file.
body_mode(op, file, steps) ==
    IF op \in {"watermark", "meme"} THEN "RGBA"
    ELSE IF op = "blur-face" THEN "RGB"
    ELSE IF op = "edit"
    THEN steps_mode(IF file.mode = "P"
                    THEN (IF file.transparency THEN "RGBA" ELSE "RGB")
                    ELSE file.mode, steps, 1)
    ELSE file.mode

IsJpeg(ext) == ext \in {".jpg", ".jpeg"}

\* The mode of the image img.save is called on.
save_mode(op, mode, ext) ==
    IF op \in {"compress", "convert", "resize", "crop", "rotate", "strip"}
    THEN (IF IsJpeg(ext) /\ mode \in {"RGBA", "P", "LA"} THEN "RGB" ELSE mode)
    ELSE IF op \in {"watermark", "meme"} THEN (IF IsJpeg(ext) THEN "RGB" ELSE mode)
    ELSE IF op \in {"blur-face", "edit"}
    THEN (IF IsJpeg(ext) /\ mode = "RGBA" THEN "RGB" ELSE mode)
    ELSE mode

\* The steps a call may ask for: up to two of the editor's, one filter at most.
StepSets(op) ==
    IF op = "edit"
    THEN {S \in SUBSET {ModeSteps[i] : i \in DOMAIN ModeSteps} :
              Cardinality(S) <= 2 /\ Cardinality(S \cap FilterSteps) <= 1}
    ELSE IF op = "upscale" THEN {{}, {"sharpen"}}
    ELSE {{}}

ModeIdle ==
    /\ m_op = "" /\ m_file = ModeFile("", FALSE) /\ m_ext = "" /\ m_steps = {}
    /\ m_img = "" /\ m_saved = "" /\ m_pc = "off"

ModeStart ==
    /\ m_op \in ModeOps
    /\ m_file \in ModeFiles
    /\ m_ext \in {".jpg", ".jpeg", ".png"}
    /\ m_steps \in StepSets(m_op)
    /\ m_img = "" /\ m_saved = "" /\ m_pc = "open"

\* img = open_image(input_path).
ModeOpen ==
    /\ m_pc = "open"
    /\ m_img' = m_file.mode
    /\ m_pc' = "body"
    /\ UNCHANGED <<m_op, m_file, m_ext, m_steps, m_saved>>
    /\ UNCHANGED <<resolveVars, validateVars, cliVars, httpVars, concVars, procVars,
                   inputsVars, frontVars, pureVars>>

\* The statements between open_image and the save.  The library may refuse to
\* filter a palette image, and upscale then ends without a save.
ModeBody ==
    /\ m_pc = "body"
    /\ \/ /\ m_img' = body_mode(m_op, m_file, m_steps)
          /\ m_pc' = "save"
       \/ /\ m_op = "upscale" /\ "sharpen" \in m_steps /\ m_img = "P"
          /\ m_pc' = "done"
          /\ UNCHANGED m_img
    /\ UNCHANGED <<m_op, m_file, m_ext, m_steps, m_saved>>
    /\ UNCHANGED <<resolveVars, validateVars, cliVars, httpVars, concVars, procVars,
                   inputsVars, frontVars, pureVars>>

\* The conversion before the save, where the function has one, and img.save.
ModeSave ==
    /\ m_pc = "save"
    /\ m_img' = save_mode(m_op, m_img, m_ext)
    /\ m_saved' = save_mode(m_op, m_img, m_ext)
    /\ m_pc' = "done"
    /\ UNCHANGED <<m_op, m_file, m_ext, m_steps>>
    /\ UNCHANGED <<resolveVars, validateVars, cliVars, httpVars, concVars, procVars,
                   inputsVars, frontVars, pureVars>>

MoreIdle == InputsIdle /\ FrontIdle /\ PureIdle /\ ModeIdle

LaterIdle == ConcIdle /\ ProcIdle /\ MoreIdle

(***************************************************************************)
(* The specifications.                                                     *)
(***************************************************************************)
InitResolve == ResolveStart /\ ValidateIdle /\ CliIdle /\ HttpIdle /\ LaterIdle
NextResolve == ResolveCall
SpecResolve == InitResolve /\ [][NextResolve]_vars

InitCli == CliStart /\ ResolveIdle /\ ValidateIdle /\ HttpIdle /\ LaterIdle
NextCli ==
    \/ MainParse
    \/ CmdUsageError
    \/ CmdNoInputs
    \/ CmdResolveInputs
    \/ CmdHtmlToImg
    \/ RunBatchStart
    \/ ItemValidate
    \/ ItemResolve
    \/ ItemProcess
    \/ LoopEnd
SpecCli == InitCli /\ [][NextCli]_vars

InitValidate == ValidateStart /\ ResolveIdle /\ CliIdle /\ HttpIdle /\ LaterIdle
NextValidate == DetectCall \/ ValidateCall
SpecValidate == InitValidate /\ [][NextValidate]_vars

InitHttp == HttpStart /\ ResolveIdle /\ ValidateIdle /\ CliIdle /\ LaterIdle
NextHttp ==
    \/ HttpReceive
    \/ HttpRefuse
    \/ HandlerEnter
    \/ HandlerSaveUpload
    \/ HandlerOutputPath
    \/ HandlerProcess
SpecHttp == InitHttp /\ [][NextHttp]_vars

InitConc ==
    ConcStart /\ ProcIdle /\ ResolveIdle /\ ValidateIdle /\ CliIdle /\ HttpIdle /\ MoreIdle
NextConc ==
    \/ \E s \in Slots : KReceive(s)
    \/ \E s \in Slots : KEnter(s)
    \/ \E s \in Slots : KSaveUpload(s)
    \/ \E s \in Slots : KOutputPath(s)
    \/ \E s \in Slots : KProcess(s)
    \/ \E s \in Slots : KExcept(s)
    \/ \E s \in Slots : KFinally(s)
    \/ \E s \in Slots : KSend(s)
SpecConc == InitConc /\ [][NextConc]_vars

InitProc ==
    ProcStart /\ ConcIdle /\ ResolveIdle /\ ValidateIdle /\ CliIdle /\ HttpIdle /\ MoreIdle
NextProc ==
    \/ OpenImage
    \/ CompressBody
    \/ WatermarkBody
    \/ ResizeBody
    \/ EditStep
    \/ EditSave
SpecProc == InitProc /\ [][NextProc]_vars

InitInputs ==
    /\ ResolveIdle /\ ValidateIdle /\ CliIdle /\ HttpIdle /\ ConcIdle /\ ProcIdle
    /\ InputsStart /\ FrontIdle /\ PureIdle /\ ModeIdle
NextInputs == ResolveInputsCall
SpecInputs == InitInputs /\ [][NextInputs]_vars

InitCrop ==
    /\ ResolveIdle /\ ValidateIdle /\ CliIdle /\ HttpIdle /\ ConcIdle /\ CropStart /\ MoreIdle
NextCrop ==
    \/ OpenImage
    \/ CropBody
SpecCrop == InitCrop /\ [][NextCrop]_vars

InitMode ==
    /\ ResolveIdle /\ ValidateIdle /\ CliIdle /\ HttpIdle /\ ConcIdle /\ ProcIdle
    /\ InputsIdle /\ FrontIdle /\ PureIdle /\ ModeStart
NextMode ==
    \/ ModeOpen
    \/ ModeBody
    \/ ModeSave
SpecMode == InitMode /\ [][NextMode]_vars

InitFront ==
    /\ ResolveIdle /\ ValidateIdle /\ CliIdle /\ HttpIdle /\ ConcIdle /\ ProcIdle
    /\ InputsIdle /\ FrontStart /\ PureIdle /\ ModeIdle
NextFront ==
    \/ FrontCli
    \/ FrontHttp
SpecFront == InitFront /\ [][NextFront]_vars

InitPure ==
    /\ ResolveIdle /\ ValidateIdle /\ CliIdle /\ HttpIdle /\ ConcIdle /\ ProcIdle
    /\ InputsIdle /\ FrontIdle /\ PureStart /\ ModeIdle
NextPure == EditorInvoke
SpecPure == InitPure /\ [][NextPure]_vars

(***************************************************************************)
(* Output-path resolution: C4, C5, C6 (checked under SpecResolve).         *)
(***************************************************************************)
ResolveDone == r_pc = "done"

\* C4: the path resolve_output returns is never the input path unless
\* overwrite permission was given.
C4_NeverInputWithoutOverwrite ==
    (ResolveDone /\ r_result.status = "ok" /\ r_result.path = r_input) => r_overwrite

\* The case C5 is about: empty suffix, no explicit output, no forced extension.
C5_Case == r_suffix = <<>> /\ ~ArgGiven(r_output_arg) /\ ~Truthy(r_ext)

\* C5 as claimed: in that case the resolved path is the input path, so the call
\* raises the overwrite error without the flag and returns the input path with it.
C5_EmptySuffixHitsGuard ==
    (ResolveDone /\ C5_Case) =>
        IF r_overwrite
        THEN r_result = Returned(r_input)
        ELSE r_result.status = "OverwriteError"

\* C5 as amended: in that case the call returns, with or without the overwrite
\* flag, the path <stem>_<extension> beside the input, which is not the input
\* path, and does not raise the overwrite error.
C5_EmptySuffixStillRenames ==
    (ResolveDone /\ C5_Case) =>
        /\ r_result.status = "ok"
        /\ r_result.path # r_input
        /\ PathParent(r_result.path) = PathParent(r_input)
        /\ PathName(r_result.path) =
              PathStem(r_input) \o <<"_">>
                  \o (IF PathSuffix(r_input) = <<>> THEN <<".">> ELSE PathSuffix(r_input))

C5_Witness ==
    /\ ResolveDone /\ C5_Case /\ ~r_overwrite
    /\ PathSuffix(r_input) # <<>>
    /\ r_result.status = "ok"

\* The extension E of the claim's S_X.E, without its dot: the forced extension
\* when one is given, else the input's own.
C6_DotlessExt ==
    LET e == IF Truthy(r_ext) THEN r_ext[1] ELSE PathSuffix(r_input)
    IN  IF e # <<>> /\ e[1] = "." THEN Tail(e) ELSE e

C6_Synthesized == PathStem(r_input) \o <<"_">> \o r_suffix \o <<".">> \o C6_DotlessExt

\* C6: resolve_output returns (a) with no explicit output the file S_X.E beside
\* the input, (b) with an explicit output that is an existing directory that
\* directory joined with S_X.E, (c) any other explicit output verbatim.
C6_ResolveOutputShape ==
    ResolveDone =>
        IF ~ArgGiven(r_output_arg)
        THEN r_result = Returned(PathJoin(PathParent(r_input), C6_Synthesized))
        ELSE IF r_output_arg[1] \in ExistingDirs
             THEN r_result = Returned(PathJoin(r_output_arg[1], C6_Synthesized))
             ELSE r_result = Returned(r_output_arg[1])

C6_Witness ==
    /\ ResolveDone
    /\ ArgGiven(r_output_arg) /\ r_output_arg[1] = <<DirO>>
    /\ r_input = <<DirD, <<"p", ".", "p">>>>
    /\ r_suffix = <<"r">> /\ r_ext = Some(<<"q">>)
    /\ r_result.path = <<DirO, <<"p", "_", "r", ".", "q">>>>

(***************************************************************************)
(* Input validation and format sniffing: C8, C9 (checked under             *)
(* SpecValidate).                                                          *)
(***************************************************************************)
\* C8: an existing regular file of recognised format is rejected by
\* validate_input when its size is above the ceiling and accepted when it is at
\* or below it.
C8_SizeCeiling ==
    (v_pc = "done" /\ v_file.kind = "file" /\ v_fmt # None) =>
        IF FileSize(v_file) > v_max_size
        THEN v_result = "TooLarge"
        ELSE v_result = "ok"

C8_Witness ==
    /\ v_pc = "done" /\ v_file.kind = "file" /\ v_fmt # None
    /\ v_max_size = MAX_FILE_SIZE
    /\ FileSize(v_file) = v_max_size
    /\ v_result = "ok"

\* `sig` stands in `h` at byte offset `off`.
C9_At(h, off, sig) ==
    /\ Len(h) >= off + Len(sig)
    /\ \A i \in 1..Len(sig) : h[off + i] = sig[i]

C9_Tags == <<"JPEG", "PNG", "GIF", "WEBP", "BMP", "TIFF", "HEIC", "SVG">>

\* Rule k of the claim's priority list on header h; `lead` is the text whose
\* start the last rule looks at.
C9_Rule(k, h, lead) ==
    CASE k = 1 -> C9_At(h, 0, SIG_JPEG)
      [] k = 2 -> C9_At(h, 0, SIG_PNG)
      [] k = 3 -> C9_At(h, 0, SIG_GIF87a) \/ C9_At(h, 0, SIG_GIF89a)
      [] k = 4 -> C9_At(h, 0, SIG_RIFF) /\ C9_At(h, 8, SIG_WEBP)
      [] k = 5 -> C9_At(h, 0, SIG_BM)
      [] k = 6 -> C9_At(h, 0, SIG_TIFF_II) \/ C9_At(h, 0, SIG_TIFF_MM)
      [] k = 7 -> C9_At(h, 4, SIG_ftyp) /\ \E b \in HeicBrands : C9_At(h, 8, b)
      [] k = 8 -> C9_At(lead, 0, SIG_xml) \/ C9_At(lead, 0, SIG_svg)

\* The tag of the first rule that matches, None when none does.
C9_FirstMatch(h, lead) ==
    LET hits == {k \in 1..Len(C9_Tags) : C9_Rule(k, h, lead)}
    IN  IF hits = {} THEN None
        ELSE Some(C9_Tags[CHOOSE k \in hits : \A j \in hits : k <= j])

\* The first HeaderLen bytes of the drawn file.
C9_Head == IF Len(v_file.data) <= HeaderLen THEN v_file.data
           ELSE SubSeq(v_file.data, 1, HeaderLen)

C9_Readable == v_file.kind = "file" /\ v_file.readable

\* C9 as claimed: detect_format returns the tag of the first matching signature
\* of the priority list, the last rule being a header that starts with '<?xml'
\* or '<svg', and no format when none matches or the file cannot be read.
C9_LeadingSvgOnly ==
    v_pc # "start" =>
        v_fmt = IF C9_Readable THEN C9_FirstMatch(C9_Head, C9_Head) ELSE None

\* The header without the ASCII whitespace (space, \t, \n, \v, \f, \r) in front.
RECURSIVE C9_SkipWhitespace(_)
C9_SkipWhitespace(h) ==
    IF h # <<>> /\ Head(h) \in {32, 9, 10, 11, 12, 13}
    THEN C9_SkipWhitespace(Tail(h))
    ELSE h

\* C9 as amended: the same, the last rule being '<?xml' or '<svg' at the start
\* of the header once its leading ASCII whitespace is skipped.
C9_FirstSignatureWins ==
    v_pc # "start" =>
        v_fmt = IF C9_Readable
                THEN C9_FirstMatch(C9_Head, C9_SkipWhitespace(C9_Head))
                ELSE None

\* A RIFF container that is not WEBP, read in full, classified as no format.
C9_Witness ==
    /\ v_pc # "start" /\ C9_Readable
    /\ C9_At(C9_Head, 0, SIG_RIFF) /\ Len(C9_Head) >= 12
    /\ ~C9_At(C9_Head, 8, SIG_WEBP)
    /\ v_fmt = None

(***************************************************************************)
(* The batch runner and the exit code: C1, C2, C3, C7 (checked under       *)
(* SpecCli).                                                               *)
(***************************************************************************)
CliExited == c_pc = "exited"
Items == 1..Len(c_inputs)
CallsOn(i) == {k \in 1..Len(c_calls) : c_calls[k].item = i}
Attempted(i) == \E k \in CallsOn(i) : c_calls[k].op = "validate_input"
Failed(i) == \E k \in CallsOn(i) : c_calls[k].result # "ok"
Processed(i) == \E k \in CallsOn(i) : c_calls[k].op = "process" /\ c_calls[k].result = "ok"
Recorded(i) ==
    \E e \in 1..Len(c_errors) :
        /\ c_errors[e].input = c_inputs[i].path
        /\ \E k \in CallsOn(i) : c_calls[k].result = c_errors[e].error

\* C1: once run_batch's loop has taken its first item, the run ends only after
\* every item was attempted, whichever of them failed, and every failure is in
\* errors; no failure of an item ends the run as a fatal error.
C1_FailureDoesNotAbortBatch ==
    (c_mode = "batch" /\ CliExited /\ c_calls # <<>>) =>
        /\ c_rc # Some(ExitFatal)
        /\ \A i \in Items : Attempted(i) /\ (Failed(i) => Recorded(i))

\* The first item failed after its validation and the last one was processed.
C1_Witness ==
    /\ c_mode = "batch" /\ CliExited /\ Len(c_inputs) >= 2
    /\ \E k \in CallsOn(1) : c_calls[k].op = "ensure_parent" /\ c_calls[k].result = "OSError"
    /\ Recorded(1)
    /\ Processed(Len(c_inputs))

\* run_batch ran its loop to the end (it did not stop at the mkdir before it).
BatchRanToEnd == c_mode = "batch" /\ CliExited /\ c_i = Len(c_inputs)

\* C2: a batch over N inputs of which M fail ends with success = N - M and M
\* entries in errors, returns 2 when M > 0, and every item that did not fail was
\* processed to completion on the output path resolved for it.
C2_BatchCounts ==
    BatchRanToEnd =>
        LET N == Len(c_inputs)
            M == Cardinality({i \in Items : Failed(i)})
        IN  /\ c_success = N - M
            /\ Len(c_errors) = M
            /\ M > 0 => c_rc = Some(2)
            /\ \A i \in Items :
                  ~Failed(i) =>
                      \E k \in CallsOn(i), j \in CallsOn(i) :
                          /\ c_calls[k].op = "resolve_output" /\ c_calls[k].result = "ok"
                          /\ c_calls[j].op = "process" /\ c_calls[j].result = "ok"
                          /\ k < j
                          /\ c_calls[j].out = c_calls[k].out
                          /\ c_calls[j].out \in c_written

C2_Witness ==
    /\ BatchRanToEnd /\ Len(c_inputs) >= 2
    /\ c_success >= 1 /\ Len(c_errors) >= 1
    /\ c_rc = Some(2)

\* C3: the exit code is 0 only when every input was processed successfully, 2
\* when a batch loop ran and an item failed, 1 when the command refused its
\* arguments, no command was given or the inputs could not be resolved.
C3_ExitCodeContract ==
    (CliExited /\ c_args.parse = "ok") =>
        /\ c_rc = Some(0) => \A i \in Items : Processed(i) /\ ~Failed(i)
        /\ (BatchRanToEnd /\ \E i \in Items : Failed(i)) => c_rc = Some(2)
        /\ (c_cmd = "" \/ (c_cmd \in Prechecked /\ ~c_args.valid)) => c_rc = Some(1)

\* The k-th check of validate_input on file f, in the order of the claim:
\* exists, is a regular file, size within the ceiling, format recognised.
C7_CheckPasses(k, f) ==
    CASE k = 1 -> f.kind # "missing"
      [] k = 2 -> f.kind = "file"
      [] k = 3 -> FileSize(f) <= MAX_FILE_SIZE
      [] k = 4 -> f.kind = "file" /\ f.readable
                    /\ C9_FirstMatch(Slice(f.data, 0, HeaderLen),
                                     C9_SkipWhitespace(Slice(f.data, 0, HeaderLen))) # None

C7_Errors == <<"NotFound", "NotAFile", "TooLarge", "UnsupportedFormat">>

\* The error of the first check that fails, "ok" when all four pass.
C7_FirstFailure(f) ==
    LET failing == {k \in 1..Len(C7_Errors) : ~C7_CheckPasses(k, f)}
    IN  IF failing = {} THEN "ok"
        ELSE C7_Errors[CHOOSE k \in failing : \A j \in failing : k <= j]

\* C7: in every flow, each item's validate_input ends with the error of the
\* first failing check, and process (which decodes the image) is called only on
\* an item whose validate_input call came before and passed all four checks.
C7_ValidatedBeforeDecode ==
    \A k \in 1..Len(c_calls) :
        LET call == c_calls[k]
            f == c_inputs[call.item].file
        IN  /\ call.op = "validate_input" => call.result = C7_FirstFailure(f)
            /\ call.op = "process" =>
                  /\ \A n \in 1..Len(C7_Errors) : C7_CheckPasses(n, f)
                  /\ \E j \in 1..(k - 1) :
                        /\ c_calls[j].item = call.item
                        /\ c_calls[j].op = "validate_input" /\ c_calls[j].result = "ok"

\* An oversized file of unknown format was refused for its size and never
\* processed, and another item of the run was processed.
C7_Witness ==
    /\ CliExited
    /\ \E i \in Items :
          /\ c_inputs[i].file = BigGarbage
          /\ \A k \in CallsOn(i) :
                c_calls[k].op = "validate_input" /\ c_calls[k].result = "TooLarge"
          /\ CallsOn(i) # {}
    /\ \E i \in Items : Processed(i)

(***************************************************************************)
(* The upload ceiling of the HTTP adapter: C10 (checked under SpecHttp).   *)
(***************************************************************************)
\* The handler of the request in hand was entered, and the request is answered.
HandledAndAnswered ==
    h_pc = "done" /\ h_req.before = 200 /\ h_req.endpoint \in UploadEndpoints

\* Nothing was staged or run for the request in hand.
NothingStaged ==
    /\ h_inp = None /\ h_out = None
    /\ \A k \in 1..Len(h_trace) : h_trace[k] \notin {"save_upload", "output_path", "process"}

\* No content check came before the size check.
SizeCheckedFirst ==
    \A k \in 1..Len(h_trace) :
        h_trace[k] = "magic" => \E j \in 1..(k - 1) : h_trace[j] = "size"

\* C10: on every endpoint that takes an upload, an upload longer than
\* MAX_UPLOAD is answered 413 with nothing staged or run and the size checked
\* before the content, and an upload of exactly MAX_UPLOAD is not answered 413.
C10_OversizeAlways413 ==
    HandledAndAnswered =>
        /\ UploadLen(h_req.upload) > MAX_UPLOAD =>
              h_resp.status = 413 /\ NothingStaged /\ SizeCheckedFirst
        /\ UploadLen(h_req.upload) = MAX_UPLOAD => h_resp.status # 413

\* An oversized upload of unrecognised content answered 413 on the size check
\* alone.
C10_Witness ==
    /\ HandledAndAnswered
    /\ h_req.upload = Upload(Zeros(HeaderLen), MAX_UPLOAD - HeaderLen + 1)
    /\ h_resp.status = 413
    /\ h_trace = <<"enter", "read", "size">>
    /\ h_tmp = {}

(***************************************************************************)
(* The contents the adapter lets through, and the temp files it leaves.     *)
(***************************************************************************)
Did(what) == \E k \in 1..Len(h_trace) : h_trace[k] = what

\* What detect_format makes of the upload once it is on disk.
SniffedUpload == Classify(Slice(h_req.upload.data, 0, HeaderLen))

\* C11: an upload whose content detect_format does not recognise is answered
\* 415 once its content has been checked, and nothing is staged or run for it.
C11_UnknownContentRefused ==
    (h_req.endpoint \in UploadEndpoints /\ Did("magic") /\ SniffedUpload = None)
        => (h_pc = "done" /\ h_resp.status = 415 /\ NothingStaged)

\* C12: once a request is answered, no temp file is left.
C12_NoTempFileLeft ==
    h_pc = "done" => h_tmp = {}

\* C13: once a request is answered, the staged input it made is gone, whatever
\* came after it was made, and so is the output file when the processor raised.
C13_StagedInputAlwaysDeleted ==
    h_pc = "done" =>
        /\ h_inp # None => h_inp[1] \notin h_tmp
        /\ (Did("process") /\ h_resp.status = 500 /\ h_out # None) => h_out[1] \notin h_tmp

\* The package the operation of the request in hand needs is not installed.
DependencyMissing ==
    \/ h_req.endpoint = "remove-bg" /\ ~h_deps.rembg
    \/ h_req.endpoint = "blur-face" /\ ~h_deps.cv2

\* C15: a request for remove-bg or blur-face that gets to its processor while
\* the package it needs is missing is answered 501.
C15_MissingDependency501 ==
    (h_pc = "done" /\ Did("process") /\ DependencyMissing) => h_resp.status = 501

(***************************************************************************)
(* Requests served side by side.                                           *)
(***************************************************************************)
\* C14: the temp paths held by two requests in flight are never the same, and
\* every path a request holds names the file that this request made: no other
\* request has deleted it or made a file of its own in its place.
C14_TempFilesNotShared ==
    /\ \A s \in Slots, t \in Slots : s # t => Held(s) \cap Held(t) = {}
    /\ \A s \in Slots : \A n \in Held(s) : TempFile(n, k_req[s].id) \in k_disk

\* A request has unlinked its output after its processor raised and is not
\* over yet, and the name went to a file that another request now holds.
C14_Witness ==
    \E s \in Slots, t \in Slots :
        /\ s # t
        /\ k_req[s].pc = "finally_raise" /\ k_req[s].out # None
        /\ k_req[s].out[1] \in Held(t)
        /\ k_req[t].pc \in {"process", "send"}

(***************************************************************************)
(* The processing functions.                                               *)
(***************************************************************************)
ProcDone == p_pc = "done"

\* The value a parameter was given in the call, if it was given one.
Given(name) == name \in DOMAIN p_kwargs /\ \E k \in 1..Len(p_args) : p_args[k].name = name
ValueOf(name) == p_kwargs[name][1].num

\* The parameters with a bounded domain and their bounds, in the model's units.
C16_Bounded ==
    {"quality", "opacity", "brightness", "contrast", "saturation", "sharpness", "hue",
     "border", "thumbnail"}
C16_Lo(name) ==
    IF name = "quality" \/ name = "border" THEN 1
    ELSE IF name = "thumbnail" THEN 16
    ELSE IF name = "hue" THEN -1800
    ELSE 0
C16_Hi(name) ==
    IF name = "quality" THEN 100
    ELSE IF name = "opacity" THEN 10
    ELSE IF name = "hue" THEN 1800
    ELSE IF name = "border" THEN 500
    ELSE IF name = "thumbnail" THEN 4096
    ELSE 100
InRange(name) == C16_Lo(name) <= ValueOf(name) /\ ValueOf(name) <= C16_Hi(name)
OutOfRange(name) == name \in C16_Bounded /\ Given(name) /\ ~InRange(name)

\* C16: a call given a value outside its parameter's range does not succeed,
\* writes no output, and makes no library call that carries the parameter.
C16_OutOfRangeFails ==
    \A name \in C16_Bounded :
        (ProcDone /\ p_img # None /\ OutOfRange(name)) =>
            /\ p_result # "ok"
            /\ ~p_written
            /\ \A k \in 1..Len(p_calls) : p_calls[k].param # name

\* C17: when the editor raises the range error, it has made no library call: the
\* image is not decoded and no step has been applied.
C17_RangeErrorBeforeAnyCall ==
    (p_op = "edit" /\ p_result = RangeError) => (p_calls = <<>> /\ p_img = None)

\* The sequence the steps are to run in.
C18_Sequence ==
    <<"auto_enhance", "brightness", "contrast", "saturation", "sharpness", "hue",
      "filter_name", "flip", "border", "frame", "thumbnail">>
C18_Pos(name) == CHOOSE i \in DOMAIN C18_Sequence : C18_Sequence[i] = name
C18_IsStep(k) == p_calls[k].param \in {C18_Sequence[i] : i \in DOMAIN C18_Sequence}

\* C18: the library calls the editor makes for its steps follow the fixed
\* sequence whatever the order of the arguments; when it succeeds, every step
\* whose argument is set was applied, and the thumbnail, when applied, is the
\* last thing before the save.
C18_FixedStepOrder ==
    p_op = "edit" =>
        /\ \A i \in 1..Len(p_calls), j \in 1..Len(p_calls) :
              (i < j /\ C18_IsStep(i) /\ C18_IsStep(j))
                  => C18_Pos(p_calls[i].param) <= C18_Pos(p_calls[j].param)
        /\ (ProcDone /\ p_result = "ok") =>
              /\ \A name \in DOMAIN p_kwargs :
                    StepEnabled(name, p_kwargs) <=>
                        \E k \in 1..Len(p_calls) : p_calls[k].param = name
              /\ p_calls[Len(p_calls)].fn = "save"
              /\ StepEnabled("thumbnail", p_kwargs) =>
                    p_calls[Len(p_calls) - 1] = LibCall("resize", "thumbnail", ValueOf("thumbnail"))

\* The thumbnail was asked for before the auto-enhance; the auto-enhance was
\* applied first and the thumbnail last, and the result was saved.
C18_Witness ==
    /\ p_op = "edit" /\ ProcDone /\ p_result = "ok" /\ p_written
    /\ p_args = <<Num("thumbnail", 16), Num("auto_enhance", 1)>>
    /\ Len(p_calls) = 5

\* An edge pixel of the image shows the border: a point on the rim of the
\* canvas lies inside the border's outer edge and outside the picture.
BorderOnEdge(img) ==
    /\ img.bordered
    /\ \E x \in 0..(img.cw - 1), y \in 0..(img.ch - 1) :
          /\ x \in {0, img.cw - 1} \/ y \in {0, img.ch - 1}
          /\ InRect(img.ring, x, y) /\ ~InRect(img.pic, x, y)

\* C19: border and thumbnail given together, both in range: the result is
\* S x S and no edge pixel of it comes from the border.
C19_ThumbnailHasNoBorder ==
    (/\ p_op = "edit" /\ ProcDone /\ p_result = "ok"
     /\ Given("border") /\ InRange("border")
     /\ Given("thumbnail") /\ InRange("thumbnail"))
        => /\ p_img[1].w = ValueOf("thumbnail") /\ p_img[1].h = ValueOf("thumbnail")
           /\ ~BorderOnEdge(p_img[1])

\* C20: resize with max_size m and no percentage: with m under the larger side
\* the larger side becomes m and the smaller one the exact proportion cut to an
\* integer; otherwise the size is kept.
C20_MaxSizeFitsExactly ==
    (/\ p_op = "resize" /\ ProcDone /\ p_img # None
     /\ Given("max_size") /\ ~Given("percentage"))
        => LET m == ValueOf("max_size")
               large == Max(p_file.w, p_file.h)
               small == Min(p_file.w, p_file.h)
           IN  IF m < large
               THEN /\ Max(p_img[1].w, p_img[1].h) = m
                    /\ Min(p_img[1].w, p_img[1].h) = (small * m) \div large
               ELSE p_img[1].w = p_file.w /\ p_img[1].h = p_file.h

(***************************************************************************)
(* The batch runner's order, the written paths and the output names: C25,  *)
(* C27, C28 (checked under SpecCli).                                       *)
(***************************************************************************)
ProcessedOk(k) == c_calls[k].op = "process" /\ c_calls[k].result = "ok"

\* C25: remove-bg saves to a path ending in .png whatever output was asked
\* for, and the path the command reports for an item (out, the one it prints)
\* is a path that was written.
C25_RemoveBgReportsWrittenPng ==
    c_cmd = "remove-bg" =>
        /\ \A w \in c_written : Lower(PathSuffix(w)) = <<".", "png">>
        /\ \A k \in 1..Len(c_calls) : ProcessedOk(k) => c_calls[k].out \in c_written

\* The call on item i that ends it: the one that failed, or process.
Finishes(k) == c_calls[k].result # "ok" \/ c_calls[k].op = "process"

C27_PosOf(path) == CHOOSE i \in Items : c_inputs[i].path = path

\* C27: run_batch takes the items one after another in list order: the calls
\* never go back to an earlier item, nothing is done on an item before the one
\* ahead of it is finished, no step is made twice on an item and nothing follows
\* its failure, every item is taken by the end, and errors lists the failures
\* in input order.
C27_SequentialExactlyOnce ==
    c_mode = "batch" =>
        /\ \A k, l \in 1..Len(c_calls) :
              k < l =>
                  /\ c_calls[k].item <= c_calls[l].item
                  /\ c_calls[k].item = c_calls[l].item =>
                         (c_calls[k].op # c_calls[l].op /\ c_calls[k].result = "ok")
                  /\ c_calls[k].item < c_calls[l].item =>
                         \E f \in k..(l - 1) : c_calls[f].item = c_calls[k].item /\ Finishes(f)
        /\ \A l \in 1..Len(c_calls) :
              /\ c_calls[l].item <= c_i
              /\ \A i \in 1..(c_calls[l].item - 1) : Attempted(i)
        /\ \A e, f \in 1..Len(c_errors) :
              e < f => C27_PosOf(c_errors[e].input) < C27_PosOf(c_errors[f].input)
        /\ BatchRanToEnd => \A i \in Items : Attempted(i)

\* A batch ran to its end with two failed items behind it.
C27_Witness ==
    /\ BatchRanToEnd /\ Len(c_errors) >= 2
    /\ c_errors[1].input = c_inputs[1].path
    /\ \E k \in 1..Len(c_calls) : ProcessedOk(k) \/ c_calls[k].op = "resolve_output"

\* C28: the items of one batch run that were processed were written to
\* pairwise distinct output paths.
C28_DistinctOutputs ==
    c_mode = "batch" =>
        \A k, l \in 1..Len(c_calls) :
            (ProcessedOk(k) /\ ProcessedOk(l) /\ c_calls[k].item # c_calls[l].item)
                => written_path(c_cmd, c_calls[k].out) # written_path(c_cmd, c_calls[l].out)

(***************************************************************************)
(* What an error response tells the client: C26 (checked under SpecHttp).  *)
(***************************************************************************)
\* C26: the body of a response with an error status spells out no path of a
\* temp file of the server, and is never a stack trace.
C26_ErrorBodyNamesNoPath ==
    (h_pc = "done" /\ h_resp.status >= 400) =>
        /\ h_resp.names = {}
        /\ h_resp.body # "traceback"

(***************************************************************************)
(* resolve_inputs: C29 (checked under SpecInputs).                         *)
(***************************************************************************)
\* C29: resolve_inputs either raises the not-found error or returns a list
\* with at least one path in it.
C29_NeverEmptyList ==
    i_pc = "done" =>
        \/ i_result.status = "FileNotFoundError"
        \/ i_result.status = "ok" /\ Len(i_result.paths) >= 1

(***************************************************************************)
(* The two front ends on one request: C24 (checked under SpecFront).       *)
(***************************************************************************)
\* C24: once both front ends have dealt with the same operation and
\* parameters, either both rejected the request or both accepted it.
C24_FrontEndsAgree ==
    (f_cli # "" /\ f_http # "") => f_cli = f_http

(***************************************************************************)
(* Repeated invocations: C23 (checked under SpecPure).                     *)
(***************************************************************************)
\* C23: any two invocations of the editor with the same filter on the same
\* input, whatever was invoked between them, gave the same output.
C23_SameInputSameOutput ==
    \A a, b \in 1..Len(n_runs) :
        (n_runs[a].filter = n_runs[b].filter /\ n_runs[a].input = n_runs[b].input)
            => n_runs[a].output = n_runs[b].output

(***************************************************************************)
(* crop.process_single: C21 and C30 (checked under SpecCrop).              *)
(***************************************************************************)
\* The box that was handed to img.crop.
CropCalled == p_op = "crop" /\ Len(p_calls) >= 5 /\ p_calls[2].fn = "crop"
CroppedBox == Rect(p_calls[2].num, p_calls[3].num, p_calls[4].num, p_calls[5].num)
BoxInside(b) ==
    /\ 0 <= b.x0 /\ b.x0 <= b.x1 /\ b.x1 <= p_file.w
    /\ 0 <= b.y0 /\ b.y0 <= b.y1 /\ b.y1 <= p_file.h
\* The margins on both sides differ by a pixel at most.
BoxCentred(b) ==
    /\ (p_file.w - b.x1) - b.x0 \in {0, 1}
    /\ (p_file.h - b.y1) - b.y0 \in {0, 1}
RatioOf(k) == float_of(Split(p_kwargs["ratio"][1].str, ":")[k])[1]

\* C21: a crop by ratio rw:rh of an image with width / height <= rw / rh keeps
\* the whole width and cuts the height; of a wider image it keeps the whole
\* height and cuts the width; the box is in the middle and inside the image.
C21_RatioCropsOneSideCentred ==
    (CropCalled /\ RatioGiven(p_kwargs)) =>
        LET b == CroppedBox
        IN  /\ IF p_file.w * RatioOf(2) <= RatioOf(1) * p_file.h
               THEN b.x0 = 0 /\ b.x1 = p_file.w /\ b.y1 - b.y0 <= p_file.h
               ELSE b.y0 = 0 /\ b.y1 = p_file.h /\ b.x1 - b.x0 < p_file.w
            /\ BoxCentred(b)
            /\ BoxInside(b)

\* The 10 x 22 picture was cut to 16:9, its width kept and five rows out of
\* the middle left, and written.
C21_Witness ==
    /\ CropCalled /\ RatioGiven(p_kwargs) /\ p_written
    /\ p_file = [w |-> 10, h |-> 22] /\ RatioOf(1) = 16 /\ RatioOf(2) = 9
    /\ CroppedBox = Rect(0, 8, 10, 13)

\* C30: a crop by x, y, width and height hands img.crop a box that lies inside
\* the image and has left < right and top < bottom.
C30_ExplicitBoxInsideAndPositive ==
    (CropCalled /\ ~RatioGiven(p_kwargs)) =>
        /\ BoxInside(CroppedBox)
        /\ CroppedBox.x0 < CroppedBox.x1 /\ CroppedBox.y0 < CroppedBox.y1

(***************************************************************************)
(* The mode at the save: C22 (checked under SpecMode).                     *)
(***************************************************************************)
\* C22: whatever the operation and the mode of the input, the image that
\* img.save is called on for a .jpg or .jpeg output is not in mode RGBA, LA
\* or P.
C22_NoAlphaOrPaletteToJpeg ==
    (m_saved # "" /\ IsJpeg(m_ext)) => m_saved \notin {"RGBA", "LA", "P"}

====
